---- MODULE Spec2Model ----
(***************************************************************************)
(* Registry / service core of the endpoint-control generator:              *)
(* ControlRegistry and GeneratorRegistry (core/registries.py), the         *)
(* settings property of BaseSecurityControl (core/base_control.py), the    *)
(* controls' validators, the generators and ArtifactService                *)
(* (services/artifact_service.py).                                         *)
(***************************************************************************)
EXTENDS Integers, Sequences, FiniteSets, TLC

VARIABLES
    controls,      \* ControlRegistry._controls: ordered dict, name -> control class
    ui_renderers,  \* ControlRegistry._ui_renderers: ordered dict, name -> renderer class
    generators,    \* GeneratorRegistry._generators: ordered dict, name -> generator
    instances,     \* the control instances created so far (index = identity)
    heap,          \* the dict objects settings refer to (index = identity)
    held,          \* the dict object the caller holds a reference to (0: none)
    now,           \* the wall clock datetime.now() reads
    result         \* the outcome of the last call: what the caller observes

vars == <<controls, ui_renderers, generators, instances, heap, held, now, result>>

----------------------------------------------------------------------------
(* Bounds of the model. *)

MaxControls == 2      \* registered control names
MaxInstances == 2     \* control instances alive
MaxGenerators == 2    \* registered generator names
MaxArtifacts == 2     \* keys of an artifacts mapping handed to packaging
MaxClock == 1         \* ticks of the wall clock

----------------------------------------------------------------------------
(* Python values.  A str is its sequence of characters; a list is its      *)
(* sequence of items; a dict is its sequence of <<key, value>> pairs in    *)
(* insertion order.                                                        *)

PyStr(chars) == [t |-> "str", chars |-> chars]
PyInt(n) == [t |-> "int", n |-> n]
PyBool(b) == [t |-> "bool", b |-> b]
PyList(items) == [t |-> "list", items |-> items]
PyDict(items) == [t |-> "dict", items |-> items]
None == [t |-> "NoneType"]

\* isinstance(v, cls)
IsInstance(v, cls) == v.t = cls

\* k in d, d[k] and d[k] = v on the pairs of an insertion-ordered dict
DictKeys(d) == {d[i][1] : i \in 1..Len(d)}
DictHas(d, k) == \E i \in 1..Len(d) : d[i][1] = k
DictGet(d, k) == d[CHOOSE i \in 1..Len(d) : d[i][1] = k][2]
DictSet(d, k, v) ==
    IF DictHas(d, k)
    THEN [i \in 1..Len(d) |-> IF d[i][1] = k THEN <<k, v>> ELSE d[i]]
    ELSE Append(d, <<k, v>>)

\* str(chars): the characters joined into one string
RECURSIVE Str(_)
Str(chars) == IF chars = <<>> THEN "" ELSE Head(chars) \o Str(Tail(chars))

\* sep.join(words)
RECURSIVE Join(_, _)
Join(words, sep) ==
    IF words = <<>> THEN ""
    ELSE IF Len(words) = 1 THEN words[1]
    ELSE words[1] \o sep \o Join(Tail(words), sep)

Whitespace == {" ", "\t", "\n"}

\* s.strip()
RECURSIVE LStrip(_)
LStrip(chars) ==
    IF chars # <<>> /\ Head(chars) \in Whitespace THEN LStrip(Tail(chars)) ELSE chars
RECURSIVE RStrip(_)
RStrip(chars) ==
    IF chars # <<>> /\ chars[Len(chars)] \in Whitespace
    THEN RStrip(SubSeq(chars, 1, Len(chars) - 1)) ELSE chars
Strip(chars) == RStrip(LStrip(chars))

\* s.startswith(c) for a one-character prefix
StartsWith(chars, c) == chars # <<>> /\ chars[1] = c

----------------------------------------------------------------------------
(* Exceptions and call outcomes. *)

Exc(type, msg) == [type |-> type, msg |-> msg]
Returned(op, args, value) ==
    [op |-> op, args |-> args, raised |-> FALSE, exc |-> None, value |-> value]
Raised(op, args, exc) ==
    [op |-> op, args |-> args, raised |-> TRUE, exc |-> exc, value |-> None]

\* no call is in progress and no outcome is pending: the single-threaded
\* caller makes its next call only after it took the last one's outcome
NoCall == Returned("idle", <<>>, None)
Idle == result = NoCall

\* the caller takes the outcome of the call it made
Return ==
    /\ ~Idle
    /\ result' = NoCall
    /\ UNCHANGED <<controls, ui_renderers, generators, instances, heap, held, now>>

----------------------------------------------------------------------------
(* Controls: metadata names and validators. *)

ControlClasses ==
    {"FileAssociationControl", "NetworkTrafficControl", "WinXMenuControl",
     "WindowsHotkeyControl", "CustomSecurityControl"}

\* a factory of custom controls under a name another control has:
\* CustomSecurityControl with its name parameter bound
CustomWinXFactory == "CustomSecurityControl('WinX Menu Hardening')"

\* the factories handed to register_control: classes and the bound factory
ControlFactories ==
    {"FileAssociationControl", "WinXMenuControl", "CustomSecurityControl",
     CustomWinXFactory}

\* SecurityControlMetadata.name, as the words between its spaces
MetadataWords(cls) ==
    CASE cls = "FileAssociationControl" -> <<"File", "Association", "Security">>
      [] cls = "NetworkTrafficControl" -> <<"LOLBIN", "Firewall", "Rules">>
      [] cls = "WinXMenuControl" -> <<"WinX", "Menu", "Hardening">>
      [] cls = "WindowsHotkeyControl" -> <<"Windows", "Hotkey", "Control">>
      [] cls = "CustomSecurityControl" -> <<"Custom", "Control">>
      [] cls = CustomWinXFactory -> <<"WinX", "Menu", "Hardening">>

MetadataName(cls) == Join(MetadataWords(cls), " ")

\* BaseSecurityControl.get_control_name: name.replace(" ", "_")
GetControlName(cls) == Join(MetadataWords(cls), "_")

FileAssociationValidate(settings) ==
    IF ~DictHas(settings.items, "file_associations") THEN FALSE
    ELSE LET file_assoc == DictGet(settings.items, "file_associations") IN
         IF ~IsInstance(file_assoc, "dict") THEN FALSE
         ELSE \A i \in 1..Len(file_assoc.items) :
                LET ext == file_assoc.items[i][1]
                    app == file_assoc.items[i][2]
                IN /\ ~(~IsInstance(ext, "str") \/ ~StartsWith(ext.chars, "."))
                   /\ ~(~IsInstance(app, "str") \/ Strip(app.chars) = <<>>)

NetworkTrafficValidate(settings) ==
    IF ~DictHas(settings.items, "firewall_rules") THEN FALSE
    ELSE LET firewall_rules == DictGet(settings.items, "firewall_rules") IN
         IF ~IsInstance(firewall_rules, "list") THEN FALSE
         ELSE \A i \in 1..Len(firewall_rules.items) :
                LET rule == firewall_rules.items[i] IN
                /\ IsInstance(rule, "dict")
                /\ ~(~DictHas(rule.items, "name") \/ ~DictHas(rule.items, "program"))
                /\ ~(\/ ~IsInstance(DictGet(rule.items, "name"), "str")
                     \/ ~IsInstance(DictGet(rule.items, "program"), "str"))

WinXMenuValidate(settings) ==
    IF ~DictHas(settings.items, "winx_removal") THEN FALSE
    ELSE LET winx_removal == DictGet(settings.items, "winx_removal") IN
         IF ~IsInstance(winx_removal, "list") THEN FALSE
         ELSE \A i \in 1..Len(winx_removal.items) :
                LET item == winx_removal.items[i] IN
                ~(~IsInstance(item, "str") \/ Strip(item.chars) = <<>>)

WindowsHotkeyValidate(settings) ==
    IF /\ ~DictHas(settings.items, "disable_all_hotkeys")
       /\ ~DictHas(settings.items, "disabled_hotkeys")
    THEN FALSE
    ELSE IF /\ DictHas(settings.items, "disable_all_hotkeys")
            /\ ~IsInstance(DictGet(settings.items, "disable_all_hotkeys"), "bool")
    THEN FALSE
    ELSE IF DictHas(settings.items, "disabled_hotkeys")
    THEN LET disabled == DictGet(settings.items, "disabled_hotkeys") IN
         IF ~IsInstance(disabled, "list") THEN FALSE
         ELSE \A i \in 1..Len(disabled.items) :
                LET hotkey == disabled.items[i] IN
                ~(~IsInstance(hotkey, "str") \/ Len(hotkey.chars) # 1)
    ELSE TRUE

CustomValidate(settings) == IsInstance(settings, "dict")

\* control.validate_settings(settings), dispatched on the control's class
ValidateSettings(cls, settings) ==
    CASE cls = "FileAssociationControl" -> FileAssociationValidate(settings)
      [] cls = "NetworkTrafficControl" -> NetworkTrafficValidate(settings)
      [] cls = "WinXMenuControl" -> WinXMenuValidate(settings)
      [] cls = "WindowsHotkeyControl" -> WindowsHotkeyValidate(settings)
      [] cls \in {"CustomSecurityControl", CustomWinXFactory} -> CustomValidate(settings)

----------------------------------------------------------------------------
(* The settings mappings callers hand in. *)

Scr == <<".", "s", "c", "r">>
ScrNoDot == <<"s", "c", "r">>
Bat == <<".", "b", "a", "t">>
Notepad == <<"n", "o", "t", "e", "p", "a", "d", ".", "e", "x", "e">>
BlockCmd == <<"B", "l", "o", "c", "k", "_", "c", "m", "d">>
CmdExe == <<"c", "m", "d", ".", "e", "x", "e">>
CommandPrompt == <<"C", "o", "m", "m", "a", "n", "d", " ", "P", "r", "o", "m", "p", "t">>

FullRule == PyDict(<< <<"name", PyStr(BlockCmd)>>, <<"program", PyStr(CmdExe)>> >>)
NoProgramRule == PyDict(<< <<"name", PyStr(BlockCmd)>> >>)
NoNameRule == PyDict(<< <<"program", PyStr(CmdExe)>> >>)
IntNameRule == PyDict(<< <<"name", PyInt(1)>>, <<"program", PyStr(CmdExe)>> >>)

FileAssociationValues ==
    { PyDict(<< <<PyStr(Scr), PyStr(Notepad)>> >>),
      PyDict(<< <<PyStr(Scr), PyStr(Notepad)>>, <<PyStr(Bat), PyStr(Notepad)>> >>),
      PyDict(<< <<PyStr(Scr), PyInt(1)>> >>),
      PyList(<<PyStr(Scr)>>) }

FirewallRulesValues ==
    { PyList(<<FullRule>>),
      PyList(<<NoProgramRule>>),
      PyList(<<NoNameRule>>),
      PyList(<<IntNameRule>>),
      PyList(<<FullRule, NoProgramRule>>),
      PyInt(5) }

WinxRemovalValues ==
    { PyList(<<PyStr(CommandPrompt)>>),
      PyInt(5) }

\* a dict with the given keys present, in the order file_associations,
\* firewall_rules, winx_removal
SettingsOf(fa, fw, wx) ==
    PyDict((IF fa = None THEN <<>> ELSE << <<"file_associations", fa>> >>)
        \o (IF fw = None THEN <<>> ELSE << <<"firewall_rules", fw>> >>)
        \o (IF wx = None THEN <<>> ELSE << <<"winx_removal", wx>> >>))

SettingsInputs ==
    { SettingsOf(fa, fw, wx) :
        fa \in FileAssociationValues \cup {None},
        fw \in FirewallRulesValues \cup {None},
        wx \in WinxRemovalValues \cup {None} }

\* the mappings assigned to controls' settings
AssignInputs ==
    { SettingsOf(None, None, None),
      SettingsOf(PyDict(<< <<PyStr(Scr), PyStr(Notepad)>> >>), None, None),
      SettingsOf(PyDict(<< <<PyStr(ScrNoDot), PyStr(Notepad)>> >>), None, None),
      SettingsOf(None, PyList(<<FullRule>>), None),
      SettingsOf(None, PyList(<<NoProgramRule>>), None),
      SettingsOf(None, PyList(<<FullRule, NoNameRule>>), None) }

----------------------------------------------------------------------------
(* Default configurations.  A string built from a table entry is kept by    *)
(* the pieces it is made of (a path by its components and separators); no   *)
(* piece is empty or blank.                                                 *)

\* FileAssociationControl.DANGEROUS_EXTENSIONS: extension, default_app
DANGEROUS_EXTENSIONS ==
    << <<Scr, Notepad>>,
       <<<<".", "c", "a", "b">>, Notepad>>,
       <<<<".", "a", "p", "p", "x">>, Notepad>>,
       <<<<".", "p", "s", "1">>, Notepad>>,
       <<Bat, Notepad>>,
       <<<<".", "c", "m", "d">>, Notepad>>,
       <<<<".", "v", "b", "s">>, Notepad>>,
       <<<<".", "v", "b", "e">>, Notepad>>,
       <<<<".", "h", "t", "a">>, Notepad>>,
       <<<<".", "s", "h", "s">>, Notepad>>,
       <<<<".", "s", "h", "b">>, Notepad>>,
       <<<<".", "j", "s">>, Notepad>>,
       <<<<".", "j", "s", "e">>, Notepad>>,
       <<<<".", "j", "a", "r">>, Notepad>>,
       <<<<".", "w", "s", "h">>, Notepad>>,
       <<<<".", "w", "s", "c">>, Notepad>>,
       <<<<".", "w", "s", "f">>, Notepad>>,
       <<<<".", "s", "c", "t">>, Notepad>>,
       <<<<".", "c", "h", "m">>, Notepad>>,
       <<<<".", "i", "s", "o">>, Notepad>> >>

\* FileAssociationControl.get_default_configuration
FileAssociationDefault ==
    PyDict(<< <<"file_associations",
                PyDict([i \in 1..Len(DANGEROUS_EXTENSIONS) |->
                            <<PyStr(DANGEROUS_EXTENSIONS[i][1]),
                              PyStr(DANGEROUS_EXTENSIONS[i][2])>>])>> >>)

\* the two paths most entries of RISKY_BINARIES have
SystemRootPaths(exe) ==
    << <<"%SystemRoot%", "System32", exe>>, <<"%SystemRoot%", "SysWOW64", exe>> >>

\* NetworkTrafficControl.RISKY_BINARIES: a binary name by its stem and
\* ".exe", a path by its components
RISKY_BINARIES ==
    <<
       [binary_name |-> <<"regsvr32", ".exe">>, paths |-> SystemRootPaths("regsvr32.exe")],
       [binary_name |-> <<"mshta", ".exe">>, paths |-> SystemRootPaths("mshta.exe")],
       [binary_name |-> <<"bitsadmin", ".exe">>, paths |-> SystemRootPaths("bitsadmin.exe")],
       [binary_name |-> <<"certutil", ".exe">>, paths |-> SystemRootPaths("certutil.exe")],
       [binary_name |-> <<"msbuild", ".exe">>,
        paths |-> << <<"C:", "Windows", "Microsoft.NET", "Framework", "v2.0.50727", "Msbuild.exe">>,
                   <<"C:", "Windows", "Microsoft.NET", "Framework64", "v2.0.50727", "Msbuild.exe">>,
                   <<"C:", "Windows", "Microsoft.NET", "Framework", "v3.5", "Msbuild.exe">>,
                   <<"C:", "Windows", "Microsoft.NET", "Framework64", "v3.5", "Msbuild.exe">>,
                   <<"C:", "Windows", "Microsoft.NET", "Framework", "v4.0.30319", "Msbuild.exe">>,
                   <<"C:", "Windows", "Microsoft.NET", "Framework64", "v4.0.30319", "Msbuild.exe">> >>],
       [binary_name |-> <<"hh", ".exe">>, paths |-> SystemRootPaths("hh.exe")],
       [binary_name |-> <<"makecab", ".exe">>, paths |-> SystemRootPaths("makecab.exe")],
       [binary_name |-> <<"ieexec", ".exe">>,
        paths |-> << <<"C:", "Windows", "Microsoft.NET", "Framework", "v2.0.50727", "ieexec.exe">>,
                   <<"C:", "Windows", "Microsoft.NET", "Framework64", "v2.0.50727", "ieexec.exe">> >>],
       [binary_name |-> <<"expand", ".exe">>, paths |-> SystemRootPaths("expand.exe")],
       [binary_name |-> <<"rundll32", ".exe">>, paths |-> SystemRootPaths("rundll32.exe")],
       [binary_name |-> <<"powershell", ".exe">>,
        paths |-> << <<"%SystemRoot%", "System32", "WindowsPowerShell", "v1.0",
                       "powershell.exe">>,
                     <<"%SystemRoot%", "SysWOW64", "WindowsPowerShell", "v1.0",
                       "powershell.exe">> >>],
       [binary_name |-> <<"cmd", ".exe">>, paths |-> SystemRootPaths("cmd.exe")],
       [binary_name |-> <<"wscript", ".exe">>, paths |-> SystemRootPaths("wscript.exe")],
       [binary_name |-> <<"cscript", ".exe">>, paths |-> SystemRootPaths("cscript.exe")],
       [binary_name |-> <<"msiexec", ".exe">>, paths |-> SystemRootPaths("msiexec.exe")] >>

\* word in path, for a word that is a whole component
PathHas(path, word) == \E i \in 1..Len(path) : path[i] = word

\* the path string: the components with the separators between them
RECURSIVE JoinPath(_)
JoinPath(path) ==
    IF Len(path) <= 1 THEN path
    ELSE <<path[1], "\\">> \o JoinPath(Tail(path))

\* binary_name.replace('.exe', '')
WithoutExe(binary_name) == SelectSeq(binary_name, LAMBDA piece : piece # ".exe")

\* the rule get_default_configuration makes of one path of one binary
DefaultRule(binary_name, path) ==
    PyDict(<< <<"name",
                PyStr(<<"Block_">> \o WithoutExe(binary_name) \o
                      <<"_",
                        IF PathHas(path, "SysWOW64") \/ PathHas(path, "Framework64")
                        THEN path[Len(path) - 1]
                        ELSE "x86",
                        "_Outbound">>)>>,
              <<"program", PyStr(JoinPath(path))>> >>)

\* the rules of the binaries from the b-th on, the b-th from its p-th path
RECURSIVE DefaultRules(_, _)
DefaultRules(b, p) ==
    IF b > Len(RISKY_BINARIES) THEN <<>>
    ELSE IF p > Len(RISKY_BINARIES[b].paths) THEN DefaultRules(b + 1, 1)
    ELSE <<DefaultRule(RISKY_BINARIES[b].binary_name, RISKY_BINARIES[b].paths[p])>>
            \o DefaultRules(b, p + 1)

\* NetworkTrafficControl.get_default_configuration
NetworkTrafficDefault ==
    PyDict(<< <<"firewall_rules", PyList(DefaultRules(1, 1))>> >>)

\* WinXMenuControl.WINX_ITEMS: item, menu_name
WINX_ITEMS ==
    <<
       <<"Command Prompt", "Command Prompt (Admin)">>,
       <<"PowerShell", "Windows PowerShell (Admin)">>,
       <<"Computer Management", "Computer Management">>,
       <<"Event Viewer", "Event Viewer">>,
       <<"Task Manager", "Task Manager">>,
       <<"Settings", "Settings">>,
       <<"File Explorer", "File Explorer">>,
       <<"Device Manager", "Device Manager">>,
       <<"Network Connections", "Network Connections">>,
       <<"Disk Management", "Disk Management">> >>

\* the menu names of the listed items that WINX_ITEMS has, in the list's order
RECURSIVE MenuNames(_)
MenuNames(default_removals) ==
    IF default_removals = <<>> THEN <<>>
    ELSE (IF DictHas(WINX_ITEMS, Head(default_removals))
          THEN <<PyStr(<<DictGet(WINX_ITEMS, Head(default_removals))>>)>>
          ELSE <<>>)
         \o MenuNames(Tail(default_removals))

\* WinXMenuControl.get_default_configuration
WinXMenuDefault ==
    PyDict(<< <<"winx_removal", PyList(MenuNames(<<"Command Prompt", "PowerShell">>))>> >>)

\* a default that names the hotkeys by their key combination
WindowsHotkeyDefaultCombinations ==
    PyDict(<< <<"disable_all_hotkeys", PyBool(FALSE)>>,
              <<"disabled_hotkeys",
                PyList(<<PyStr(<<"W", "i", "n", "+", "R">>),
                         PyStr(<<"W", "i", "n", "+", "X">>)>>)>> >>)

\* WindowsHotkeyControl.get_default_configuration
WindowsHotkeyDefault ==
    PyDict(<< <<"disable_all_hotkeys", PyBool(FALSE)>>,
              <<"disabled_hotkeys", PyList(<<PyStr(<<"R">>), PyStr(<<"X">>)>>)>> >>)

\* control.get_default_configuration(), dispatched on the control's class
GetDefaultConfiguration(cls) ==
    CASE cls = "FileAssociationControl" -> FileAssociationDefault
      [] cls = "NetworkTrafficControl" -> NetworkTrafficDefault
      [] cls = "WinXMenuControl" -> WinXMenuDefault
      [] cls = "WindowsHotkeyControl" -> WindowsHotkeyDefault
      [] cls \in {"CustomSecurityControl", CustomWinXFactory} -> PyDict(<<>>)

----------------------------------------------------------------------------
(* The heap of dict objects.  An object lives while an instance or the     *)
(* caller refers to it.                                                    *)

NewId(h) == CHOOSE n \in 1..(Cardinality(DOMAIN h) + 1) :
                /\ n \notin DOMAIN h
                /\ \A m \in 1..(n - 1) : m \in DOMAIN h

Live(insts, h) == {insts[i].settings : i \in 1..Len(insts)} \cup ({h} \ {0})

Collect(hp, insts, h) == [id \in Live(insts, h) |-> hp[id]]

----------------------------------------------------------------------------
(* ControlRegistry *)

RendererClasses ==
    {"FileAssociationRenderer", "NetworkTrafficRenderer", "WinXMenuRenderer",
     "WindowsHotkeyRenderer", "CustomRenderer"}

\* ui_renderer_class = None, the parameter's default
NoRenderer == "None"

RendererOf(cls) ==
    CASE cls = "FileAssociationControl" -> "FileAssociationRenderer"
      [] cls = "NetworkTrafficControl" -> "NetworkTrafficRenderer"
      [] cls = "WinXMenuControl" -> "WinXMenuRenderer"
      [] cls = "WindowsHotkeyControl" -> "WindowsHotkeyRenderer"
      [] cls \in {"CustomSecurityControl", CustomWinXFactory} -> "CustomRenderer"

\* a registration under the class's own name
RegisterControlDictsByClass(ctl, rnd, control_class, ui_renderer_class) ==
    [controls |-> DictSet(ctl, control_class, control_class),
     ui_renderers |-> IF ui_renderer_class # NoRenderer
                      THEN DictSet(rnd, control_class, ui_renderer_class)
                      ELSE rnd]

\* a registration that keeps the class a name already has
RegisterControlDictsKeepFirst(ctl, rnd, control_class, ui_renderer_class) ==
    LET control_name == MetadataName(control_class) IN
    [controls |-> IF DictHas(ctl, control_name) THEN ctl
                  ELSE DictSet(ctl, control_name, control_class),
     ui_renderers |-> IF ui_renderer_class # NoRenderer
                      THEN DictSet(rnd, control_name, ui_renderer_class)
                      ELSE rnd]

\* the registry's two dicts after register_control(control_class, ui_renderer_class)
\* a registration that keeps the renderer a name already has
RegisterControlDictsFirstRenderer(ctl, rnd, control_class, ui_renderer_class) ==
    LET control_name == MetadataName(control_class) IN
    [controls |-> DictSet(ctl, control_name, control_class),
     ui_renderers |-> IF ui_renderer_class # NoRenderer /\ ~DictHas(rnd, control_name)
                      THEN DictSet(rnd, control_name, ui_renderer_class)
                      ELSE rnd]

RegisterControlDicts(ctl, rnd, control_class, ui_renderer_class) ==
    LET control_name == MetadataName(control_class) IN
    [controls |-> DictSet(ctl, control_name, control_class),
     ui_renderers |-> IF ui_renderer_class # NoRenderer
                      THEN DictSet(rnd, control_name, ui_renderer_class)
                      ELSE rnd]

RegisterControl(control_class, ui_renderer_class) ==
    LET after == RegisterControlDicts(controls, ui_renderers,
                                      control_class, ui_renderer_class) IN
    /\ Idle
    /\ Len(after.controls) <= MaxControls
    /\ controls' = after.controls
    /\ ui_renderers' = after.ui_renderers
    /\ result' = Returned("register_control",
                          <<control_class, ui_renderer_class>>, None)
    /\ UNCHANGED <<generators, instances, heap, held, now>>

\* a mapping handed out by reference: the registry's own dict object
DictAlias(items) == [t |-> "dict", shared |-> TRUE, items |-> items]

\* dict.copy(): a new dict object with the same items
DictCopy(items) == [t |-> "dict", shared |-> FALSE, items |-> items]

GetAvailableControls ==
    /\ Idle
    /\ result' = Returned("get_available_controls", <<>>, DictCopy(controls))
    /\ UNCHANGED <<controls, ui_renderers, generators, instances, heap, held, now>>

\* BaseSecurityControl.__init__ through the class's constructor
NewControl(cls, settings_id) ==
    [cls |-> cls, name |-> MetadataName(cls), settings |-> settings_id]

\* a registry that keeps one instance per name and hands it out again
CreateControlShared(control_name) ==
    IF ~DictHas(controls, control_name)
    THEN /\ Idle
         /\ result' = Raised("create_control", <<control_name>>,
                Exc("ValueError",
                    <<"Control '", control_name, "' not found in registry">>))
         /\ UNCHANGED <<controls, ui_renderers, generators, instances, heap,
                        held, now>>
    ELSE IF \E j \in 1..Len(instances) :
                instances[j].cls = DictGet(controls, control_name)
         THEN /\ Idle
              /\ result' = Returned("create_control", <<control_name>>,
                    CHOOSE j \in 1..Len(instances) :
                        instances[j].cls = DictGet(controls, control_name))
              /\ UNCHANGED <<controls, ui_renderers, generators, instances,
                             heap, held, now>>
         ELSE /\ Idle
              /\ Len(instances) < MaxInstances
              /\ instances' = Append(instances,
                     NewControl(DictGet(controls, control_name), NewId(heap)))
              /\ heap' = [id \in DOMAIN heap \cup {NewId(heap)} |->
                             IF id \in DOMAIN heap THEN heap[id] ELSE PyDict(<<>>)]
              /\ result' = Returned("create_control", <<control_name>>,
                                    Len(instances) + 1)
              /\ UNCHANGED <<controls, ui_renderers, generators, held, now>>

\* a registry that answers an unknown name with a custom control
CreateControlOrDefault(control_name) ==
    /\ Idle
    /\ Len(instances) < MaxInstances
    /\ instances' = Append(instances,
           NewControl(IF DictHas(controls, control_name)
                      THEN DictGet(controls, control_name)
                      ELSE "CustomSecurityControl", NewId(heap)))
    /\ heap' = [id \in DOMAIN heap \cup {NewId(heap)} |->
                   IF id \in DOMAIN heap THEN heap[id] ELSE PyDict(<<>>)]
    /\ result' = Returned("create_control", <<control_name>>,
                          Len(instances) + 1)
    /\ UNCHANGED <<controls, ui_renderers, generators, held, now>>

CreateControl(control_name) ==
    IF ~DictHas(controls, control_name)
    THEN /\ Idle
         /\ result' = Raised("create_control", <<control_name>>,
                Exc("ValueError",
                    <<"Control '", control_name, "' not found in registry">>))
         /\ UNCHANGED <<controls, ui_renderers, generators, instances, heap,
                        held, now>>
    ELSE /\ Idle
         /\ Len(instances) < MaxInstances
         /\ instances' = Append(instances,
                NewControl(DictGet(controls, control_name), NewId(heap)))
         /\ heap' = [id \in DOMAIN heap \cup {NewId(heap)} |->
                        IF id \in DOMAIN heap THEN heap[id] ELSE PyDict(<<>>)]
         /\ result' = Returned("create_control", <<control_name>>,
                               Len(instances) + 1)
         /\ UNCHANGED <<controls, ui_renderers, generators, held, now>>

\* renderer_class(): an object made by the call, that nothing else refers to
NewRenderer(cls) == [t |-> "renderer", cls |-> cls, shared |-> FALSE]

\* a lookup by subscript, which raises on a name without a renderer
GetUiRendererStrict(control_name) ==
    /\ Idle
    /\ result' = IF ~DictHas(ui_renderers, control_name)
                 THEN Raised("get_ui_renderer", <<control_name>>,
                             Exc("KeyError", <<control_name>>))
                 ELSE Returned("get_ui_renderer", <<control_name>>,
                               NewRenderer(DictGet(ui_renderers, control_name)))
    /\ UNCHANGED <<controls, ui_renderers, generators, instances, heap, held, now>>

GetUiRenderer(control_name) ==
    /\ Idle
    /\ result' = Returned("get_ui_renderer", <<control_name>>,
                    IF ~DictHas(ui_renderers, control_name) THEN None
                    ELSE NewRenderer(DictGet(ui_renderers, control_name)))
    /\ UNCHANGED <<controls, ui_renderers, generators, instances, heap, held, now>>

----------------------------------------------------------------------------
(* BaseSecurityControl.settings *)

\* the caller builds a mapping object
BuildMapping(v) ==
    /\ Idle
    /\ held' = NewId(Collect(heap, instances, 0))
    /\ heap' = [id \in Live(instances, held') |->
                    IF id = held' THEN v ELSE heap[id]]
    /\ result' = Returned("dict", <<v>>, held')
    /\ UNCHANGED <<controls, ui_renderers, generators, instances, now>>

\* control.settings = value, on instance i with the mapping the caller holds
\* a setter that stores the value and validates afterwards
SetSettingsThenValidate(i) ==
    /\ Idle
    /\ held # 0
    /\ instances' = [instances EXCEPT ![i].settings = held]
    /\ IF ValidateSettings(instances[i].cls, heap[held])
       THEN result' = Returned("settings.setter", <<i, held>>, None)
       ELSE result' = Raised("settings.setter", <<i, held>>,
                    Exc("ValueError", <<"Invalid settings for ", instances[i].name>>))
    /\ heap' = Collect(heap, instances', held)
    /\ UNCHANGED <<controls, ui_renderers, generators, held, now>>

SetSettings(i) ==
    /\ Idle
    /\ held # 0
    /\ IF ValidateSettings(instances[i].cls, heap[held])
       THEN /\ instances' = [instances EXCEPT ![i].settings = held]
            /\ result' = Returned("settings.setter", <<i, held>>, None)
       ELSE /\ instances' = instances
            /\ result' = Raised("settings.setter", <<i, held>>,
                    Exc("ValueError", <<"Invalid settings for ", instances[i].name>>))
    /\ heap' = Collect(heap, instances', held)
    /\ UNCHANGED <<controls, ui_renderers, generators, held, now>>

----------------------------------------------------------------------------
(* Generators.  A generated text is its sequence of lines, a line the      *)
(* sequence of the pieces an f-string joins; runs of fixed template lines  *)
(* are kept by their first line.                                           *)

GeneratorClasses ==
    {"GPOXMLGenerator", "PowerShellGenerator", "RegistryGenerator",
     "BatchGenerator", "TerraformGenerator"}

\* a generator instance: its class and its identity as an object
GeneratorInstance(cls, id) == [t |-> "generator", cls |-> cls, id |-> id]

\* the instance a composition root makes of a class
NewGenerator(cls) == GeneratorInstance(cls, 1)

GetFileExtension(generator) ==
    CASE generator.cls = "GPOXMLGenerator" -> "xml"
      [] generator.cls = "PowerShellGenerator" -> "ps1"
      [] generator.cls = "RegistryGenerator" -> "reg"
      [] generator.cls = "BatchGenerator" -> "bat"
      [] generator.cls = "TerraformGenerator" -> "tf"

\* a predicate that looks at the values under the keys
SupportsSettingsByValue(generator, settings) ==
    CASE generator.cls = "GPOXMLGenerator" ->
            \/ /\ DictHas(settings.items, "file_associations")
               /\ IsInstance(DictGet(settings.items, "file_associations"), "dict")
            \/ DictHas(settings.items, "firewall_rules")
      [] generator.cls = "RegistryGenerator" ->
            /\ DictHas(settings.items, "file_associations")
            /\ IsInstance(DictGet(settings.items, "file_associations"), "dict")
      [] generator.cls = "TerraformGenerator" ->
            DictHas(settings.items, "firewall_rules")
      [] generator.cls \in {"PowerShellGenerator", "BatchGenerator"} -> TRUE

\* a base-class default that accepts only a non-empty mapping
SupportsSettingsNonEmpty(generator, settings) ==
    CASE generator.cls = "GPOXMLGenerator" ->
            \/ DictHas(settings.items, "file_associations")
            \/ DictHas(settings.items, "firewall_rules")
      [] generator.cls = "RegistryGenerator" ->
            DictHas(settings.items, "file_associations")
      [] generator.cls = "TerraformGenerator" ->
            DictHas(settings.items, "firewall_rules")
      [] generator.cls \in {"PowerShellGenerator", "BatchGenerator"} ->
            settings.items # <<>>

SupportsSettings(generator, settings) ==
    CASE generator.cls = "GPOXMLGenerator" ->
            \/ DictHas(settings.items, "file_associations")
            \/ DictHas(settings.items, "firewall_rules")
      [] generator.cls = "RegistryGenerator" ->
            DictHas(settings.items, "file_associations")
      [] generator.cls = "TerraformGenerator" ->
            DictHas(settings.items, "firewall_rules")
      [] generator.cls \in {"PowerShellGenerator", "BatchGenerator"} -> TRUE

\* a value inside an f-string
Format(v) ==
    CASE v.t = "str" -> Str(v.chars)
      [] v.t = "int" -> ToString(v.n)
      [] v.t = "bool" -> IF v.b THEN "True" ELSE "False"
      [] OTHER -> "<" \o v.t \o ">"

\* datetime.now().strftime('%Y-%m-%d %H:%M:%S')
Timestamp(clock) == "T" \o ToString(clock)

Done(text) == [raised |-> FALSE, exc |-> None, text |-> text]
Fails(exc) == [raised |-> TRUE, exc |-> exc, text |-> <<>>]

NotIterable(v) == Exc("TypeError", <<"'", v.t, "' object is not iterable">>)
NoAttribute(v, attr) ==
    Exc("AttributeError", <<"'", v.t, "' object has no attribute '", attr, "'">>)
KeyError(k) == Exc("KeyError", <<"'", k, "'">>)

\* what reading rule[k], for the keys in the order the code reads them, raises
RuleError(rule, keys) ==
    IF ~IsInstance(rule, "dict")
    THEN Exc("TypeError", <<"'", rule.t, "' indices must be integers">>)
    ELSE IF \E i \in 1..Len(keys) : ~DictHas(rule.items, keys[i])
    THEN KeyError(keys[CHOOSE i \in 1..Len(keys) :
                        /\ ~DictHas(rule.items, keys[i])
                        /\ \A j \in 1..(i - 1) : DictHas(rule.items, keys[j])])
    ELSE None

\* what "for rule in firewall_rules: ... rule[k] ..." raises
RECURSIVE RulesError(_, _)
RulesError(rules, keys) ==
    IF rules = <<>> THEN None
    ELSE IF RuleError(rules[1], keys) # None THEN RuleError(rules[1], keys)
    ELSE RulesError(Tail(rules), keys)

FirewallError(firewall_rules, keys) ==
    IF ~IsInstance(firewall_rules, "list") THEN NotIterable(firewall_rules)
    ELSE RulesError(firewall_rules.items, keys)

\* lines.extend(block) for each block in turn
RECURSIVE Flatten(_)
Flatten(blocks) ==
    IF blocks = <<>> THEN <<>> ELSE Head(blocks) \o Flatten(Tail(blocks))

\* the attribute values GPOXMLGenerator hands to ElementTree, in document order
GPOAttributeValues(settings) ==
    LET s == settings.items IN
    (IF DictHas(s, "file_associations")
     THEN LET fa == DictGet(s, "file_associations").items IN
          [i \in 1..Len(fa) |-> fa[i][2]]
     ELSE <<>>)
    \o
    (IF DictHas(s, "firewall_rules")
     THEN LET fw == DictGet(s, "firewall_rules").items IN
          [i \in 1..(2 * Len(fw)) |->
              IF i % 2 = 1 THEN DictGet(fw[(i + 1) \div 2].items, "program")
              ELSE DictGet(fw[i \div 2].items, "name")]
     ELSE <<>>)

GPOGenerate(control_name, settings, clock) ==
    LET s == settings.items
        values == GPOAttributeValues(settings)
    IN
    IF /\ DictHas(s, "file_associations")
       /\ ~IsInstance(DictGet(s, "file_associations"), "dict")
    THEN Fails(NoAttribute(DictGet(s, "file_associations"), "items"))
    ELSE IF /\ DictHas(s, "firewall_rules")
            /\ FirewallError(DictGet(s, "firewall_rules"), <<"program", "name">>) # None
    THEN Fails(FirewallError(DictGet(s, "firewall_rules"), <<"program", "name">>))
    ELSE IF \E i \in 1..Len(values) : ~IsInstance(values[i], "str")
    THEN LET bad == values[CHOOSE i \in 1..Len(values) :
                        /\ ~IsInstance(values[i], "str")
                        /\ \A j \in 1..(i - 1) : IsInstance(values[j], "str")]
         IN Fails(Exc("TypeError",
                <<"cannot serialize ", Format(bad), " (type ", bad.t, ")">>))
    ELSE Done(
        << <<"<GroupPolicyObject>">>,
           <<"<Identifier>{12345678-1234-5678-9012-", Timestamp(clock), "}</Identifier>">>,
           <<"<Domain>example.com</Domain>">>,
           <<"<Name>", control_name, "</Name>">>,
           <<"<Computer>">>,
           <<"<Enabled>true</Enabled>">>,
           <<"<ExtensionData>">> >>
        \o (IF DictHas(s, "file_associations")
            THEN LET fa == DictGet(s, "file_associations").items IN
                 << <<"<Registry>">> >>
                 \o [i \in 1..Len(fa) |->
                        <<"<Policy State=\"Enabled\" Key=\"HKEY_CLASSES_ROOT\\",
                          Format(fa[i][1]), "\" ValueName=\"\" Value=\"",
                          Format(fa[i][2]), "\"/>">>]
                 \o << <<"</Registry>">> >>
            ELSE <<>>)
        \o (IF DictHas(s, "firewall_rules")
            THEN LET fw == DictGet(s, "firewall_rules").items IN
                 << <<"<WindowsDefenderFirewall>">> >>
                 \o [i \in 1..Len(fw) |->
                        <<"<InboundRule Action=\"Block\" Program=\"",
                          Format(DictGet(fw[i].items, "program")), "\" Name=\"",
                          Format(DictGet(fw[i].items, "name")), "\"/>">>]
                 \o << <<"</WindowsDefenderFirewall>">> >>
            ELSE <<>>)
        \o << <<"</ExtensionData>">>, <<"</Computer>">>, <<"</GroupPolicyObject>">> >>)

\* a generator that works the time of the call into the control's name
RegistryGenerateStamped(control_name, settings, clock) ==
    Done(<< <<"Windows Registry Editor Version 5.00">>,
            <<"">>,
            <<"; Windows Security Control: ", control_name \o "@" \o Timestamp(clock)>>,
            <<"">> >>)

RegistryGenerate(control_name, settings, clock) ==
    LET s == settings.items IN
    IF /\ DictHas(s, "file_associations")
       /\ ~IsInstance(DictGet(s, "file_associations"), "dict")
    THEN Fails(NoAttribute(DictGet(s, "file_associations"), "items"))
    ELSE Done(
        << <<"Windows Registry Editor Version 5.00">>,
           <<"">>,
           <<"; Windows Security Control: ", control_name>>,
           <<"; Generated: ", Timestamp(clock)>>,
           <<"">> >>
        \o (IF DictHas(s, "file_associations")
            THEN LET fa == DictGet(s, "file_associations").items IN
                 << <<"; File Association Changes">>,
                    <<"; Using HKLM\\SOFTWARE\\Classes instead of HKCR to avoid dynamic generation issues">> >>
                 \o Flatten([i \in 1..Len(fa) |->
                        << <<"[HKEY_LOCAL_MACHINE\\SOFTWARE\\Classes\\", Format(fa[i][1]), "]">>,
                           <<"@=\"", Format(fa[i][2]), "File\"">>,
                           <<"">>,
                           <<"[HKEY_LOCAL_MACHINE\\SOFTWARE\\Classes\\", Format(fa[i][2]),
                             "File\\shell\\open\\command]">>,
                           <<"@=\"", Format(fa[i][2]), " \\\"%1\\\"\"">>,
                           <<"">> >>])
            ELSE <<>>))

\* set(file_associations.values()), in first-occurrence order
RECURSIVE UniqueValues(_, _)
UniqueValues(pairs, seen) ==
    IF pairs = <<>> THEN seen
    ELSE UniqueValues(Tail(pairs),
            IF \E i \in 1..Len(seen) : seen[i] = pairs[1][2]
            THEN seen ELSE Append(seen, pairs[1][2]))

PowerShellGenerate(control_name, settings, clock) ==
    LET s == settings.items IN
    IF /\ DictHas(s, "file_associations")
       /\ ~IsInstance(DictGet(s, "file_associations"), "dict")
    THEN Fails(NoAttribute(DictGet(s, "file_associations"), "values"))
    ELSE IF /\ DictHas(s, "firewall_rules")
            /\ FirewallError(DictGet(s, "firewall_rules"), <<"name", "program">>) # None
    THEN Fails(FirewallError(DictGet(s, "firewall_rules"), <<"name", "program">>))
    ELSE IF /\ DictHas(s, "winx_removal")
            /\ ~IsInstance(DictGet(s, "winx_removal"), "list")
    THEN Fails(NotIterable(DictGet(s, "winx_removal")))
    ELSE Done(
        << <<"# Windows Security Control Implementation Script">>,
           <<"# Control: ", control_name>>,
           <<"# Generated: ", Timestamp(clock)>>,
           <<"">>,
           <<"# Requires Administrator privileges">>,
           <<"Write-Host 'Implementing security control...' -ForegroundColor Green">>,
           <<"">> >>
        \o (IF DictHas(s, "file_associations")
            THEN LET fa == DictGet(s, "file_associations").items
                     apps == UniqueValues(fa, <<>>)
                 IN << <<"# File Association Security Control">>,
                       <<"# Set up file type handlers">> >>
                    \o Flatten([i \in 1..Len(apps) |->
                        << <<"New-Item -Path 'HKLM:\\SOFTWARE\\Classes\\", Format(apps[i]),
                             "File\\shell\\open\\command' -Force | Out-Null">>,
                           <<"Set-ItemProperty -Path 'HKLM:\\SOFTWARE\\Classes\\", Format(apps[i]),
                             "File\\shell\\open\\command' -Name '(Default)' -Value '\"",
                             Format(apps[i]), "\" \"%1\"'">> >>])
                    \o << <<"">>, <<"# Associate extensions with handlers">> >>
                    \o Flatten([i \in 1..Len(fa) |->
                        << <<"New-Item -Path 'HKLM:\\SOFTWARE\\Classes\\", Format(fa[i][1]),
                             "' -Force | Out-Null">>,
                           <<"Set-ItemProperty -Path 'HKLM:\\SOFTWARE\\Classes\\", Format(fa[i][1]),
                             "' -Name '(Default)' -Value '", Format(fa[i][2]), "File'">> >>])
                    \o << <<"">> >>
            ELSE <<>>)
        \o (IF DictHas(s, "firewall_rules")
            THEN LET fw == DictGet(s, "firewall_rules").items IN
                 << <<"# Windows Firewall Rules">> >>
                 \o [i \in 1..Len(fw) |->
                        <<"New-NetFirewallRule -DisplayName '",
                          Format(DictGet(fw[i].items, "name")),
                          "' -Direction Outbound -Program '",
                          Format(DictGet(fw[i].items, "program")),
                          "' -Action Block -Protocol TCP">>]
                 \o << <<"">> >>
            ELSE <<>>)
        \o (IF DictHas(s, "winx_removal")
            THEN LET wx == DictGet(s, "winx_removal").items IN
                 << <<"# WinX Menu Modification - Apply to all users and default profile">> >>
                 \o [i \in 1..Len(wx) |->
                        <<"        Remove-Item -Path \"$winxPath\\*", Format(wx[i]),
                          "*\" -Recurse -Force -ErrorAction SilentlyContinue">>]
                 \o << <<"# Modify default user profile for new users">> >>
                 \o [i \in 1..Len(wx) |->
                        <<"    Remove-Item -Path \"$defaultWinxPath\\*", Format(wx[i]),
                          "*\" -Recurse -Force -ErrorAction SilentlyContinue">>]
                 \o << <<"# Restart Explorer to apply changes">>, <<"">> >>
            ELSE <<>>)
        \o << <<"Write-Host 'Security control implementation completed!' -ForegroundColor Green">>,
              <<"Write-Host 'Please reboot the system to ensure all changes take effect.' -ForegroundColor Cyan">> >>)

\* bool(v)
Truthy(v) ==
    CASE v.t = "bool" -> v.b
      [] v.t = "int" -> v.n # 0
      [] v.t = "str" -> v.chars # <<>>
      [] v.t \in {"list", "dict"} -> v.items # <<>>
      [] OTHER -> FALSE

\* "".join(items)
RECURSIVE JoinValues(_)
JoinValues(items) ==
    IF items = <<>> THEN "" ELSE Str(items[1].chars) \o JoinValues(Tail(items))

\* the hotkey section of BatchGenerator.generate
BatchHotkeyError(s) ==
    IF /\ DictHas(s, "disabled_hotkeys")
       /\ Truthy(DictGet(s, "disabled_hotkeys"))
    THEN LET hotkeys == DictGet(s, "disabled_hotkeys") IN
         IF ~IsInstance(hotkeys, "list")
         THEN Exc("TypeError", <<"object of type '", hotkeys.t, "' has no len()">>)
         ELSE IF \E i \in 1..Len(hotkeys.items) : ~IsInstance(hotkeys.items[i], "str")
         THEN Exc("TypeError", <<"sequence item: expected str instance">>)
         ELSE None
    ELSE None

BatchHotkeyLines(s) ==
    IF DictHas(s, "disable_all_hotkeys") \/ DictHas(s, "disabled_hotkeys")
    THEN << <<"REM Windows Hotkey Control">> >>
         \o (IF /\ DictHas(s, "disable_all_hotkeys")
                /\ Truthy(DictGet(s, "disable_all_hotkeys"))
             THEN << <<"REM Disable ALL Windows hotkeys (system-wide)">> >>
             ELSE <<>>)
         \o (IF /\ DictHas(s, "disabled_hotkeys")
                /\ Truthy(DictGet(s, "disabled_hotkeys"))
             THEN LET hotkeys_string == JoinValues(DictGet(s, "disabled_hotkeys").items) IN
                  << <<"REM Disable specific Windows hotkeys: ", hotkeys_string>>,
                     <<"echo   Disabling specific hotkeys: ", hotkeys_string>>,
                     <<"        reg add \"HKU\\TempUser_%%~nxU\\...\" /v DisabledHotkeys /t REG_SZ /d \"",
                       hotkeys_string, "\" /f 2>nul">>,
                     <<"reg add \"HKU\\DefaultUser\\...\" /v DisabledHotkeys /t REG_SZ /d \"",
                       hotkeys_string, "\" /f 2>nul">> >>
             ELSE <<>>)
    ELSE <<>>

BatchGenerate(control_name, settings, clock) ==
    LET s == settings.items IN
    IF /\ DictHas(s, "file_associations")
       /\ ~IsInstance(DictGet(s, "file_associations"), "dict")
    THEN Fails(NoAttribute(DictGet(s, "file_associations"), "items"))
    ELSE IF /\ DictHas(s, "firewall_rules")
            /\ FirewallError(DictGet(s, "firewall_rules"), <<"name", "program">>) # None
    THEN Fails(FirewallError(DictGet(s, "firewall_rules"), <<"name", "program">>))
    ELSE IF /\ DictHas(s, "winx_removal")
            /\ ~IsInstance(DictGet(s, "winx_removal"), "list")
    THEN Fails(NotIterable(DictGet(s, "winx_removal")))
    ELSE IF BatchHotkeyError(s) # None
    THEN Fails(BatchHotkeyError(s))
    ELSE Done(
        << <<"@echo off">>,
           <<"REM Windows Security Control: ", control_name>>,
           <<"REM Generated: ", Timestamp(clock)>>,
           <<"">>,
           <<"REM Check for administrator privileges">>,
           <<"echo Implementing security control...">>,
           <<"">> >>
        \o (IF DictHas(s, "file_associations")
            THEN LET fa == DictGet(s, "file_associations").items IN
                 << <<"REM File Association Changes">> >>
                 \o Flatten([i \in 1..Len(fa) |->
                        << <<"assoc ", Format(fa[i][1]), "=", Format(fa[i][2]), "File">>,
                           <<"ftype ", Format(fa[i][2]), "File=\"", Format(fa[i][2]),
                             "\" \"%%1\"">> >>])
                 \o << <<"">> >>
            ELSE <<>>)
        \o (IF DictHas(s, "firewall_rules")
            THEN LET fw == DictGet(s, "firewall_rules").items IN
                 << <<"REM Windows Firewall Rules">> >>
                 \o [i \in 1..Len(fw) |->
                        <<"netsh advfirewall firewall add rule name=\"",
                          Format(DictGet(fw[i].items, "name")),
                          "\" dir=out action=block program=\"",
                          Format(DictGet(fw[i].items, "program")), "\"">>]
                 \o << <<"">> >>
            ELSE <<>>)
        \o (IF DictHas(s, "winx_removal")
            THEN LET wx == DictGet(s, "winx_removal").items IN
                 << <<"REM WinX Menu Modification - Apply to all users and default profile">> >>
                 \o [i \in 1..Len(wx) |->
                        <<"        del /F /S /Q \"%%U\\AppData\\Local\\Microsoft\\Windows\\WinX\\*",
                          Format(wx[i]), "*\" 2>nul">>]
                 \o << <<"REM Modify default user profile for new users">> >>
                 \o [i \in 1..Len(wx) |->
                        <<"    del /F /S /Q \"C:\\Users\\Default\\AppData\\Local\\Microsoft\\Windows\\WinX\\*",
                          Format(wx[i]), "*\" 2>nul">>]
                 \o << <<"REM Restart Explorer to apply changes">>, <<"">> >>
            ELSE <<>>)
        \o BatchHotkeyLines(s)
        \o << <<"echo Security control implementation completed!">>,
              <<"echo Please reboot the system to ensure all changes take effect.">>,
              <<"pause">> >>)

TerraformGenerate(control_name, settings, clock) ==
    LET s == settings.items IN
    IF /\ DictHas(s, "firewall_rules")
       /\ FirewallError(DictGet(s, "firewall_rules"), <<"name">>) # None
    THEN Fails(FirewallError(DictGet(s, "firewall_rules"), <<"name">>))
    ELSE Done(
        << <<"# Terraform configuration for ", control_name>>,
           <<"# Generated: ", Timestamp(clock)>>,
           <<"">>,
           <<"terraform {">>,
           <<"">> >>
        \o (IF DictHas(s, "firewall_rules")
            THEN LET fw == DictGet(s, "firewall_rules").items IN
                 << <<"resource \"aws_security_group\" \"security_control\" {">> >>
                 \o Flatten([i \in 1..Len(fw) |->
                        << <<"  egress {">>,
                           <<"    description = \"", Format(DictGet(fw[i].items, "name")), "\"">>,
                           <<"  }">>,
                           <<"">> >>])
                 \o << <<"}">> >>
            ELSE <<>>))

\* generator.generate(control_name, settings), dispatched on the generator's class
Generate(generator, control_name, settings, clock) ==
    CASE generator.cls = "GPOXMLGenerator" -> GPOGenerate(control_name, settings, clock)
      [] generator.cls = "PowerShellGenerator" ->
            PowerShellGenerate(control_name, settings, clock)
      [] generator.cls = "RegistryGenerator" ->
            RegistryGenerate(control_name, settings, clock)
      [] generator.cls = "BatchGenerator" -> BatchGenerate(control_name, settings, clock)
      [] generator.cls = "TerraformGenerator" ->
            TerraformGenerate(control_name, settings, clock)

\* generator.supports_settings(settings), on the mapping the caller holds
SupportsSettingsCall(name) ==
    /\ Idle
    /\ held # 0
    /\ DictHas(generators, name)
    /\ result' = Returned("supports_settings", <<DictGet(generators, name), held>>,
                          PyBool(SupportsSettings(DictGet(generators, name), heap[held])))
    /\ UNCHANGED <<controls, ui_renderers, generators, instances, heap, held, now>>

----------------------------------------------------------------------------
(* GeneratorRegistry *)

\* the identity of an object made now: that of no registered instance
FreshGeneratorId(gens) ==
    CHOOSE id \in 1..(Len(gens) + 1) :
        /\ \A i \in 1..Len(gens) : gens[i][2].id # id
        /\ \A other \in 1..(id - 1) : \E i \in 1..Len(gens) : gens[i][2].id = other

\* a registration that keeps the instance a name already has
RegisterGeneratorKeepFirst(name, generator) ==
    /\ Idle
    /\ Len(DictSet(generators, name, generator)) <= MaxGenerators
    /\ generators' = IF DictHas(generators, name) THEN generators
                     ELSE DictSet(generators, name, generator)
    /\ result' = Returned("register_generator", <<name, generator>>, None)
    /\ UNCHANGED <<controls, ui_renderers, instances, heap, held, now>>

RegisterGenerator(name, generator) ==
    /\ Idle
    /\ Len(DictSet(generators, name, generator)) <= MaxGenerators
    /\ generators' = DictSet(generators, name, generator)
    /\ result' = Returned("register_generator", <<name, generator>>, None)
    /\ UNCHANGED <<controls, ui_renderers, instances, heap, held, now>>

\* self._generators.get(name)
GeneratorOf(gens, name) == IF DictHas(gens, name) THEN DictGet(gens, name) ELSE None

\* a lookup that registers a generator under a name it does not find
GetGeneratorSetDefault(name) ==
    /\ Idle
    /\ generators' = IF DictHas(generators, name) THEN generators
                     ELSE DictSet(generators, name, NewGenerator("BatchGenerator"))
    /\ result' = Returned("get_generator", <<name>>, GeneratorOf(generators', name))
    /\ UNCHANGED <<controls, ui_renderers, instances, heap, held, now>>

GetGenerator(name) ==
    /\ Idle
    /\ result' = Returned("get_generator", <<name>>, GeneratorOf(generators, name))
    /\ UNCHANGED <<controls, ui_renderers, generators, instances, heap, held, now>>

GetAllGenerators ==
    /\ Idle
    /\ result' = Returned("get_all_generators", <<>>, DictCopy(generators))
    /\ UNCHANGED <<controls, ui_renderers, generators, instances, heap, held, now>>

\* a loop that puts each compatible generator before those found so far
RECURSIVE CompatibleLoopReversed(_, _, _)
CompatibleLoopReversed(items, settings, compatible) ==
    IF items = <<>> THEN compatible
    ELSE CompatibleLoopReversed(Tail(items), settings,
            IF SupportsSettings(items[1][2], settings)
            THEN <<items[1]>> \o compatible
            ELSE compatible)

\* the loop of get_compatible_generators over self._generators.items()
RECURSIVE CompatibleLoop(_, _, _)
CompatibleLoop(items, settings, compatible) ==
    IF items = <<>> THEN compatible
    ELSE CompatibleLoop(Tail(items), settings,
            IF SupportsSettings(items[1][2], settings)
            THEN DictSet(compatible, items[1][1], items[1][2])
            ELSE compatible)

\* a lookup that leaves the supports_settings test out
CompatibleGeneratorsUnfiltered(gens, settings) == gens

CompatibleGenerators(gens, settings) == CompatibleLoop(gens, settings, <<>>)

GetCompatibleGenerators(settings) ==
    /\ Idle
    /\ result' = Returned("get_compatible_generators", <<settings>>,
                          CompatibleGenerators(generators, settings))
    /\ UNCHANGED <<controls, ui_renderers, generators, instances, heap, held, now>>

----------------------------------------------------------------------------
(* ArtifactService *)

\* the loop of generate_all_artifacts over compatible_generators.items(): an
\* exception of generate leaves the loop and the method
\* a loop that drops the artifact of a generator whose generate raises
RECURSIVE GenerateLoopSkipFailed(_, _, _, _, _)
GenerateLoopSkipFailed(items, control_name, settings, clock, artifacts) ==
    IF items = <<>> THEN [raised |-> FALSE, exc |-> None, artifacts |-> artifacts]
    ELSE LET made == Generate(items[1][2], control_name, settings, clock) IN
         GenerateLoopSkipFailed(Tail(items), control_name, settings, clock,
                IF made.raised THEN artifacts
                ELSE DictSet(artifacts, items[1][1], made.text))

RECURSIVE GenerateLoop(_, _, _, _, _)
GenerateLoop(items, control_name, settings, clock, artifacts) ==
    IF items = <<>> THEN [raised |-> FALSE, exc |-> None, artifacts |-> artifacts]
    ELSE LET made == Generate(items[1][2], control_name, settings, clock) IN
         IF made.raised
         THEN [raised |-> TRUE, exc |-> made.exc, artifacts |-> None]
         ELSE GenerateLoop(Tail(items), control_name, settings, clock,
                           DictSet(artifacts, items[1][1], made.text))

\* a service that runs every registered generator
GenerateAllRegistered(gens, control_name, settings, clock) ==
    GenerateLoop(gens, control_name, settings, clock, <<>>)

GenerateAll(gens, control_name, settings, clock) ==
    GenerateLoop(CompatibleGenerators(gens, settings), control_name, settings,
                 clock, <<>>)

GenerateAllArtifacts(control_name, settings) ==
    LET out == GenerateAll(generators, control_name, settings, now) IN
    /\ Idle
    /\ result' = IF out.raised
                 THEN Raised("generate_all_artifacts", <<control_name, settings>>, out.exc)
                 ELSE Returned("generate_all_artifacts", <<control_name, settings>>,
                               out.artifacts)
    /\ UNCHANGED <<controls, ui_renderers, generators, instances, heap, held, now>>

\* the name create_download_package gives an artifact's file
\* a naming by the generator's extension alone
FileNameByExtension(control_name, artifact_type, generator) ==
    control_name \o "." \o GetFileExtension(generator)

FileName(control_name, artifact_type, generator) ==
    IF artifact_type = "gpo" THEN control_name \o "_GPO.xml"
    ELSE IF artifact_type = "powershell" THEN control_name \o "_Script.ps1"
    ELSE IF artifact_type = "registry" THEN control_name \o "_Registry.reg"
    ELSE IF artifact_type = "batch" THEN control_name \o "_Deploy.bat"
    ELSE control_name \o "." \o GetFileExtension(generator)

GenerateReadme(control_name, clock) ==
    << <<"Windows Security Control Package">>,
       <<"=================================">>,
       <<"">>,
       <<"Control Name: ", control_name>>,
       <<"Generated: ", Timestamp(clock)>>,
       <<"">>,
       <<"Files Included:">>,
       <<"- ", control_name, "_GPO.xml: Group Policy Object export">>,
       <<"- ", control_name, "_Script.ps1: PowerShell implementation script">>,
       <<"- ", control_name, "_Registry.reg: Registry file for manual import">>,
       <<"- ", control_name, "_Deploy.bat: Batch script for deployment">>,
       <<"">>,
       <<"IMPORTANT: Always test these configurations in a non-production environment first!">>,
       <<"">>,
       <<"Implementation Notes:">> >>

\* the loop of create_download_package over artifacts.items(): the files
\* written to the archive, in order
RECURSIVE PackageLoop(_, _, _, _)
PackageLoop(items, control_name, gens, files) ==
    IF items = <<>> THEN files
    ELSE LET artifact_type == items[1][1]
             content == items[1][2]
             generator == GeneratorOf(gens, artifact_type)
         IN PackageLoop(Tail(items), control_name, gens,
                IF generator # None
                THEN Append(files,
                        [name |-> FileName(control_name, artifact_type, generator),
                         content |-> content])
                ELSE files)

\* a package that documents only the files it has
PackageReadmeIfAny(gens, control_name, artifacts, clock) ==
    [t |-> "zip",
     files |-> IF artifacts = <<>> THEN <<>>
               ELSE Append(PackageLoop(artifacts, control_name, gens, <<>>),
                           [name |-> "README.txt",
                            content |-> GenerateReadme(control_name, clock)]),
     eocd |-> TRUE]

\* the archive: its files in the order written (the bytes end with the
\* end-of-central-directory record, present in every archive)
Package(gens, control_name, artifacts, clock) ==
    [t |-> "zip",
     files |-> Append(PackageLoop(artifacts, control_name, gens, <<>>),
                      [name |-> "README.txt",
                       content |-> GenerateReadme(control_name, clock)]),
     eocd |-> TRUE]

\* a loop that takes each artifact it writes out of the mapping
ArtifactsAfterPop(gens, artifacts) ==
    LET kept == {i \in 1..Len(artifacts) : GeneratorOf(gens, artifacts[i][1]) = None}
        Rank(i) == Cardinality({j \in kept : j <= i})
    IN [n \in 1..Cardinality(kept) |->
            artifacts[CHOOSE i \in kept : Rank(i) = n]]

\* the caller's artifacts mapping after the call: the loop iterates
\* artifacts.items() and writes to the archive only
ArtifactsAfter(gens, artifacts) == artifacts

\* the outcome records the mapping as handed in and as the call left it
CreateDownloadPackage(control_name, artifacts) ==
    /\ Idle
    /\ result' = Returned("create_download_package",
                          <<control_name, artifacts,
                            ArtifactsAfter(generators, artifacts)>>,
                          Package(generators, control_name, artifacts, now))
    /\ UNCHANGED <<controls, ui_renderers, generators, instances, heap, held, now>>

\* the wall clock advances
Tick ==
    /\ Idle
    /\ now < MaxClock
    /\ now' = now + 1
    /\ UNCHANGED <<controls, ui_renderers, generators, instances, heap, held, result>>

----------------------------------------------------------------------------
(* AppFactory: the composition root *)

RECURSIVE RegisterAll(_, _, _)
RegisterAll(ctl, rnd, regs) ==
    IF regs = <<>> THEN [controls |-> ctl, ui_renderers |-> rnd]
    ELSE LET after == RegisterControlDicts(ctl, rnd, regs[1][1], regs[1][2]) IN
         RegisterAll(after.controls, after.ui_renderers, Tail(regs))

\* AppFactory.create_control_registry
CreateControlRegistry ==
    RegisterAll(<<>>, <<>>,
        << <<"FileAssociationControl", "FileAssociationRenderer">>,
           <<"NetworkTrafficControl", "NetworkTrafficRenderer">>,
           <<"WinXMenuControl", "WinXMenuRenderer">>,
           <<"CustomSecurityControl", "CustomRenderer">> >>)

\* AppFactory.create_generator_registry
CreateGeneratorRegistry ==
    << <<"gpo", NewGenerator("GPOXMLGenerator")>>,
       <<"powershell", NewGenerator("PowerShellGenerator")>>,
       <<"registry", NewGenerator("RegistryGenerator")>>,
       <<"batch", NewGenerator("BatchGenerator")>> >>

----------------------------------------------------------------------------
(* The caller of a registry listing, writing to the mapping it was handed. *)

\* del d[k], k the key at position i
DictDel(items, i) == SubSeq(items, 1, i - 1) \o SubSeq(items, i + 1, Len(items))

\* the mappings one write turns the listing into: d[k] = v for a new key,
\* d[k] = v for a key it has, del d[k]
Mutations(items, k, v) ==
    {DictSet(items, k, v)}
        \cup {DictSet(items, items[i][1], v) : i \in 1..Len(items)}
        \cup {DictDel(items, i) : i \in 1..Len(items)}

MutationsOfListing ==
    IF result.op = "get_available_controls"
    THEN Mutations(result.value.items, "Injected Control", "WindowsHotkeyControl")
    ELSE IF result.op = "get_all_generators"
    THEN Mutations(result.value.items, "injected", NewGenerator("TerraformGenerator"))
    ELSE {}

\* the write lands in the registry's dict when the listing is that dict
MutateListing(mutated) ==
    /\ result.op \in {"get_available_controls", "get_all_generators"}
    /\ controls' = IF result.op = "get_available_controls" /\ result.value.shared
                   THEN mutated ELSE controls
    /\ generators' = IF result.op = "get_all_generators" /\ result.value.shared
                     THEN mutated ELSE generators
    /\ result' = Returned("mutate", <<result.op>>,
                          [result.value EXCEPT !.items = mutated])
    /\ UNCHANGED <<ui_renderers, instances, heap, held, now>>

\* value = control.settings, on instance i: the caller now holds a new dict
\* object with the items of the control's
GetSettings(i) ==
    /\ Idle
    /\ held' = NewId(Collect(heap, instances, 0))
    /\ heap' = [id \in Live(instances, held') |->
                    IF id = held' THEN heap[instances[i].settings] ELSE heap[id]]
    /\ result' = Returned("settings.getter", <<i>>, held')
    /\ UNCHANGED <<controls, ui_renderers, generators, instances, now>>

\* the caller writes to the dict object it holds: value[k] = v, del value[k]
MutateHeld(mutated) ==
    /\ Idle
    /\ held # 0
    /\ heap' = [heap EXCEPT ![held] = PyDict(mutated)]
    /\ result' = Returned("mutate", <<held>>, None)
    /\ UNCHANGED <<controls, ui_renderers, generators, instances, held, now>>

\* control_class(): a control made by its constructor, with empty settings
Construct(cls) ==
    /\ Idle
    /\ Len(instances) < MaxInstances
    /\ instances' = Append(instances, NewControl(cls, NewId(heap)))
    /\ heap' = [id \in DOMAIN heap \cup {NewId(heap)} |->
                    IF id \in DOMAIN heap THEN heap[id] ELSE PyDict(<<>>)]
    /\ result' = Returned("construct", <<cls>>, Len(instances) + 1)
    /\ UNCHANGED <<controls, ui_renderers, generators, held, now>>

\* value = control.get_default_configuration(), on instance i: the caller
\* now holds the mapping the call built
GetDefaultConfigurationCall(i) ==
    /\ Idle
    /\ held' = NewId(Collect(heap, instances, 0))
    /\ heap' = [id \in Live(instances, held') |->
                    IF id = held' THEN GetDefaultConfiguration(instances[i].cls)
                    ELSE heap[id]]
    /\ result' = Returned("get_default_configuration", <<i>>, held')
    /\ UNCHANGED <<controls, ui_renderers, generators, instances, now>>

----------------------------------------------------------------------------
(* ModularSecurityControlsApplication: the two request handlers.  A request *)
(* is the sequence of the calls the handler makes and of what it shows.     *)

Event(kind, op, args, raised, out) ==
    [kind |-> kind, op |-> op, args |-> args, raised |-> raised, out |-> out]

\* a call of the core that returned, a call that raised, something shown
CallReturned(op, args, out) == Event("call", op, args, FALSE, out)
CallRaised(op, args, exc) == Event("call", op, args, TRUE, exc)
Shown(op, args) == Event("ui", op, args, FALSE, None)

\* the except clauses of _handle_standard_control
ExceptStandard(exc) ==
    IF exc.type = "ValueError"
    THEN Shown("st.error", <<"Configuration error: ">> \o exc.msg)
    ELSE Shown("st.error", <<"An error occurred: ">> \o exc.msg)

\* what follows generate_all_artifacts, made being its outcome: show the
\* artifacts, package them, offer the download
AfterGenerate(gens, control_name, settings, made, clock, only_if_any) ==
    IF made.raised
    THEN <<CallRaised("generate_all_artifacts", <<control_name, settings>>, made.exc)>>
    ELSE <<CallReturned("generate_all_artifacts", <<control_name, settings>>,
                        made.artifacts)>>
         \o (IF only_if_any /\ made.artifacts = <<>> THEN <<>>
             ELSE << Shown("render_artifacts_display", <<made.artifacts, control_name>>),
                     CallReturned("create_download_package",
                                  <<control_name, made.artifacts>>,
                                  Package(gens, control_name, made.artifacts, clock)),
                     Shown("render_package_download",
                           <<Package(gens, control_name, made.artifacts, clock),
                             control_name>>) >>)

\* the rest of both handlers once the settings were assigned
GenerateAndPackage(gens, control_name, settings, clock, only_if_any) ==
    AfterGenerate(gens, control_name, settings,
                  GenerateAll(gens, control_name, settings, clock), clock, only_if_any)

\* the standard handler up to the renderer's answer
StandardRendered(control_type, cls, renderer_class, config_data) ==
    << CallReturned("create_control", <<control_type>>, cls),
       Shown("render_control_info", <<cls>>),
       CallReturned("get_ui_renderer", <<control_type>>, NewRenderer(renderer_class)),
       CallReturned("render_configuration", <<cls>>, config_data) >>

\* a handler that generates and packages before it assigns the settings
StandardGenerateThenAssign(gens, cls, config_data, clock) ==
    GenerateAndPackage(gens, GetControlName(cls), config_data, clock, FALSE)
        \o (IF ~ValidateSettings(cls, config_data)
            THEN <<CallRaised("settings.setter", <<config_data>>,
                      Exc("ValueError", <<"Invalid settings for ", MetadataName(cls)>>))>>
            ELSE <<CallReturned("settings.setter", <<config_data>>, None)>>)

\* the standard handler from the settings assignment on
StandardAssign(gens, cls, config_data, clock) ==
    IF ~ValidateSettings(cls, config_data)
    THEN <<CallRaised("settings.setter", <<config_data>>,
                      Exc("ValueError", <<"Invalid settings for ", MetadataName(cls)>>))>>
    ELSE <<CallReturned("settings.setter", <<config_data>>, None)>>
            \o GenerateAndPackage(gens, GetControlName(cls), config_data, clock, FALSE)

\* the events of the try block; the last is a call that raised when the
\* block was left by an exception
StandardTry(ctl, rnd, gens, control_type, config_data, clock) ==
    IF ~DictHas(ctl, control_type)
    THEN <<CallRaised("create_control", <<control_type>>,
                Exc("ValueError",
                    <<"Control '", control_type, "' not found in registry">>))>>
    ELSE IF ~DictHas(rnd, control_type)
    THEN << CallReturned("create_control", <<control_type>>, DictGet(ctl, control_type)),
            Shown("render_control_info", <<DictGet(ctl, control_type)>>),
            CallReturned("get_ui_renderer", <<control_type>>, None),
            Shown("st.warning", <<"No UI renderer found for ", control_type>>) >>
    ELSE StandardRendered(control_type, DictGet(ctl, control_type),
                          DictGet(rnd, control_type), config_data)
            \o (IF ~Truthy(config_data) THEN <<>>
                ELSE StandardAssign(gens, DictGet(ctl, control_type), config_data, clock))

\* the left-by-exception test of a try block's events
LeftByException(tried) == tried # <<>> /\ tried[Len(tried)].raised

\* except clauses that let everything but a ValueError through
StandardExceptValueErrorOnly(tried) ==
    IF LeftByException(tried) /\ tried[Len(tried)].out.type = "ValueError"
    THEN Append(tried, ExceptStandard(tried[Len(tried)].out))
    ELSE tried

\* a request's events: those of the try block, and what the except clause
\* shows when the block was left by an exception
StandardWithExcept(tried) ==
    IF LeftByException(tried)
    THEN Append(tried, ExceptStandard(tried[Len(tried)].out))
    ELSE tried

HandleStandardEvents(ctl, rnd, gens, control_type, config_data, clock) ==
    StandardWithExcept(StandardTry(ctl, rnd, gens, control_type, config_data, clock))

\* the custom handler from the settings assignment on
CustomAssign(gens, config_data, clock) ==
    IF ~CustomValidate(config_data.settings)
    THEN <<CallRaised("settings.setter", <<config_data.settings>>,
                      Exc("ValueError",
                          <<"Invalid settings for ", config_data.control_name>>))>>
    ELSE <<CallReturned("settings.setter", <<config_data.settings>>, None)>>
            \o GenerateAndPackage(gens, config_data.control_name,
                                  config_data.settings, clock, TRUE)

CustomTry(rnd, gens, config_data, clock) ==
    IF ~DictHas(rnd, "Custom Control")
    THEN << CallReturned("get_ui_renderer", <<"Custom Control">>, None),
            Shown("st.error", <<"Custom control renderer not found">>) >>
    ELSE << CallReturned("get_ui_renderer", <<"Custom Control">>,
                         NewRenderer(DictGet(rnd, "Custom Control"))),
            Shown("render_control_info", <<"CustomSecurityControl">>),
            CallReturned("render_configuration", <<"CustomSecurityControl">>,
                         config_data) >>
            \o (IF config_data = None THEN <<>>
                ELSE CustomAssign(gens, config_data, clock))

\* the custom handler's events: its one except clause shows the message
CustomWithExcept(tried) ==
    IF LeftByException(tried)
    THEN Append(tried, Shown("st.error", <<"An error occurred: ">>
                                            \o tried[Len(tried)].out.msg))
    ELSE tried

HandleCustomEvents(rnd, gens, config_data, clock) ==
    CustomWithExcept(CustomTry(rnd, gens, config_data, clock))

\* a handler returns its events, or raises what no except clause caught
HandlerOutcome(op, args, events) ==
    IF LeftByException(events)
    THEN Raised(op, args, events[Len(events)].out)
    ELSE Returned(op, args, events)

\* _handle_standard_control(control_type), the renderer giving config_data
HandleStandardControl(control_type, config_data) ==
    /\ Idle
    /\ result' = HandlerOutcome("_handle_standard_control", <<control_type, config_data>>,
                    HandleStandardEvents(controls, ui_renderers, generators,
                                         control_type, config_data, now))
    /\ UNCHANGED <<controls, ui_renderers, generators, instances, heap, held, now>>

\* _handle_custom_control(), the renderer giving config_data
HandleCustomControl(config_data) ==
    /\ Idle
    /\ result' = HandlerOutcome("_handle_custom_control", <<config_data>>,
                    HandleCustomEvents(ui_renderers, generators, config_data, now))
    /\ UNCHANGED <<controls, ui_renderers, generators, instances, heap, held, now>>

----------------------------------------------------------------------------
(* Specifications *)

ControlNameInputs == {MetadataName(c) : c \in ControlClasses} \cup {"Unknown Control"}

InitEmpty ==
    /\ controls = <<>>
    /\ ui_renderers = <<>>
    /\ generators = <<>>
    /\ instances = <<>>
    /\ heap = <<>>
    /\ held = 0
    /\ now = 0
    /\ result = NoCall

\* the control registry, from construction
NextControls ==
    \/ \E c \in ControlFactories : \E r \in {RendererOf(c), NoRenderer} : RegisterControl(c, r)
    \/ GetAvailableControls
    \/ \E n \in ControlNameInputs : CreateControl(n)
    \/ \E n \in ControlNameInputs : GetUiRenderer(n)
    \/ Return

SpecControls == InitEmpty /\ [][NextControls]_vars

\* controls created from the composed registry, and their settings
InitComposed ==
    /\ controls = CreateControlRegistry.controls
    /\ ui_renderers = CreateControlRegistry.ui_renderers
    /\ generators = <<>>
    /\ instances = <<>>
    /\ heap = <<>>
    /\ held = 0
    /\ now = 0
    /\ result = NoCall

NextSettings ==
    \/ \E n \in ControlNameInputs : CreateControl(n)
    \/ \E v \in AssignInputs : BuildMapping(v)
    \/ \E i \in 1..Len(instances) : SetSettings(i)
    \/ Return

SpecSettings == InitComposed /\ [][NextSettings]_vars

\* controls whose caller keeps and writes to the mappings it assigned and
\* the mappings it read
NextAliasing ==
    \/ \E n \in ControlNameInputs : CreateControl(n)
    \/ \E v \in AssignInputs : BuildMapping(v)
    \/ \E i \in 1..Len(instances) : SetSettings(i)
    \/ \E i \in 1..Len(instances) : GetSettings(i)
    \/ \E m \in (IF held = 0 THEN {}
                  ELSE Mutations(heap[held].items, "note", PyInt(5))) : MutateHeld(m)
    \/ Return

SpecAliasing == InitComposed /\ [][NextAliasing]_vars

\* the generator registry and the artifact service, from construction
GeneratorNames == {"gpo", "powershell", "registry", "batch", "terraform"}

\* the (name, class) pairs registered: those of AppFactory and of
\* examples/new_generator_example.py, and one name reused for another class
GeneratorRegistrations ==
    { <<"gpo", "GPOXMLGenerator">>, <<"powershell", "PowerShellGenerator">>,
      <<"registry", "RegistryGenerator">>, <<"batch", "BatchGenerator">>,
      <<"terraform", "TerraformGenerator">>, <<"registry", "TerraformGenerator">> }

ArtifactControlNames == {"File_Association_Security"}

PackageControlNames == ArtifactControlNames \cup {"README"}

ArtifactKeys == GeneratorNames \cup {"unknown"}

\* the artifacts mappings handed to packaging: up to MaxArtifacts distinct keys
ArtifactsInputs ==
    { [i \in 1..Len(keys) |-> <<keys[i], << <<"content of ", keys[i]>> >> >>] :
        keys \in { k \in UNION {[1..n -> ArtifactKeys] : n \in 0..MaxArtifacts} :
                     \A i, j \in 1..Len(k) : i # j => k[i] # k[j] } }

NextArtifacts ==
    \/ \E r \in GeneratorRegistrations : RegisterGenerator(r[1], NewGenerator(r[2]))
    \/ \E n \in ArtifactKeys : GetGenerator(n)
    \/ GetAllGenerators
    \/ \E s \in SettingsInputs : GetCompatibleGenerators(s)
    \/ \E n \in ArtifactControlNames : \E s \in SettingsInputs :
            GenerateAllArtifacts(n, s)
    \/ \E n \in PackageControlNames : \E a \in ArtifactsInputs :
            CreateDownloadPackage(n, a)
    \/ Tick
    \/ Return

SpecArtifacts == InitEmpty /\ [][NextArtifacts]_vars

\* packages over registries where one generator class stands under two
\* names that have no file name suffix of their own
SharedExtensionRegistrations ==
    { <<"terraform", "TerraformGenerator">>, <<"terraform_aws", "TerraformGenerator">>,
      <<"gpo", "GPOXMLGenerator">> }

SharedExtensionArtifacts ==
    { [i \in 1..Len(keys) |-> <<keys[i], << <<"content of ", keys[i]>> >> >>] :
        keys \in { k \in UNION {[1..n -> {r[1] : r \in SharedExtensionRegistrations}] :
                                    n \in 0..MaxArtifacts} :
                     \A i, j \in 1..Len(k) : i # j => k[i] # k[j] } }

NextPackages ==
    \/ \E r \in SharedExtensionRegistrations : RegisterGenerator(r[1], NewGenerator(r[2]))
    \/ \E n \in PackageControlNames : \E a \in SharedExtensionArtifacts :
            CreateDownloadPackage(n, a)
    \/ Return

SpecPackages == InitEmpty /\ [][NextPackages]_vars

\* controls of every class, their default configurations, and assignments
\* of a default to a control of its class or of another
NextDefaults ==
    \/ \E cls \in ControlClasses : Construct(cls)
    \/ \E i \in 1..Len(instances) : GetDefaultConfigurationCall(i)
    \/ \E i \in 1..Len(instances) : SetSettings(i)
    \/ Return

SpecDefaults == InitEmpty /\ [][NextDefaults]_vars

\* the application's registries, composed by AppFactory
InitApp ==
    /\ controls = CreateControlRegistry.controls
    /\ ui_renderers = CreateControlRegistry.ui_renderers
    /\ generators = CreateGeneratorRegistry
    /\ instances = <<>>
    /\ heap = <<>>
    /\ held = 0
    /\ now = 0
    /\ result = NoCall

\* listings of the application's registries, written to by their caller,
\* and the lookups that follow
NextListings ==
    \/ GetAvailableControls
    \/ GetAllGenerators
    \/ \E mutated \in MutationsOfListing : MutateListing(mutated)
    \/ \E n \in ControlNameInputs \cup {"Injected Control"} : CreateControl(n)
    \/ \E n \in ControlNameInputs \cup {"Injected Control"} : GetUiRenderer(n)
    \/ \E n \in ArtifactKeys \cup {"injected"} : GetGenerator(n)
    \/ \E s \in SettingsInputs : GetCompatibleGenerators(s)
    \/ \E n \in ArtifactControlNames : \E s \in SettingsInputs :
            GenerateAllArtifacts(n, s)
    \/ \E n \in PackageControlNames : \E a \in ArtifactsInputs :
            CreateDownloadPackage(n, a)
    \/ Return

SpecListings == InitApp /\ [][NextListings]_vars

\* the generator registry alone, every registration with an instance made
\* for it
CollidingNames == {"gpo", "registry", "terraform"}

CollidingClasses == {"GPOXMLGenerator", "RegistryGenerator", "TerraformGenerator"}

NextGenerators ==
    \/ \E n \in CollidingNames : \E c \in CollidingClasses :
            RegisterGenerator(n, GeneratorInstance(c, FreshGeneratorId(generators)))
    \/ \E n \in CollidingNames : GetGenerator(n)
    \/ GetAllGenerators
    \/ \E s \in SettingsInputs : GetCompatibleGenerators(s)
    \/ Return

SpecGenerators == InitEmpty /\ [][NextGenerators]_vars

\* the application's generators asked, one at a time, about mappings the
\* caller builds
NextSupports ==
    \/ \E v \in SettingsInputs : BuildMapping(v)
    \/ \E n \in GeneratorNames : SupportsSettingsCall(n)
    \/ Return

SpecSupports == InitApp /\ [][NextSupports]_vars

\* what the renderers hand the handlers: nothing, an empty mapping, and
\* mappings that pass or fail validation or generation
RenderedConfigs ==
    AssignInputs \cup
    { None,
      SettingsOf(PyDict(<< <<PyStr(Scr), PyStr(Notepad)>> >>),
                 PyList(<<NoProgramRule>>), None),
      SettingsOf(None, None, PyList(<<PyStr(CommandPrompt)>>)) }

\* what the custom renderer hands its handler: nothing, or a mapping of
\* control_name, control_description and settings
RenderedCustomConfigs ==
    {[t |-> "dict", control_name |-> "My Control",
      control_description |-> "description", settings |-> settings] :
        settings \in (RenderedConfigs \ {None}) \cup {PyList(<<FullRule>>)}}
        \cup {None}

\* the state the application composes, but for the controls: a registry
\* under construction stands for startups that register other controls
InitRequests ==
    /\ controls = <<>>
    /\ ui_renderers = <<>>
    /\ generators = CreateGeneratorRegistry
    /\ instances = <<>>
    /\ heap = <<>>
    /\ held = 0
    /\ now = 0
    /\ result = NoCall

NextRequests ==
    \/ \E c \in ControlFactories : \E r \in {RendererOf(c), NoRenderer} : RegisterControl(c, r)
    \/ \E n \in ControlNameInputs : \E c \in RenderedConfigs :
            HandleStandardControl(n, c)
    \/ \E c \in RenderedCustomConfigs : HandleCustomControl(c)
    \/ Tick
    \/ Return

SpecRequests == InitRequests /\ [][NextRequests]_vars

----------------------------------------------------------------------------
(* Properties *)

\* the names of a dict's pairs, in order
Names(d) == [i \in 1..Len(d) |-> d[i][1]]

\* the registered (name, generator) pairs whose generator supports the settings
SupportingPairs(settings) ==
    {generators[i] : i \in {j \in 1..Len(generators) :
                              SupportsSettings(generators[j][2], settings)}}

\* a text has the piece among the pieces of its lines
Contains(text, piece) ==
    \E i \in 1..Len(text) : \E j \in 1..Len(text[i]) : text[i][j] = piece

\* an exception's message has the piece
Mentions(exc, piece) == \E k \in 1..Len(exc.msg) : exc.msg[k] = piece

\* C1: get_compatible_generators(s) returns exactly the registered
\* (name, generator) pairs whose generator.supports_settings(s) is true: none
\* with a false predicate is included, none with a true predicate is omitted,
\* and none is returned twice.
C1_CompatibleExactlySupporting ==
    result.op = "get_compatible_generators" =>
        /\ ~result.raised
        /\ {result.value[i] : i \in 1..Len(result.value)}
             = SupportingPairs(result.args[1])
        /\ Len(result.value) = Cardinality(SupportingPairs(result.args[1]))

\* C1 witness: of two registered generators one is returned and one is left out
C1_Witness ==
    /\ result.op = "get_compatible_generators"
    /\ Len(generators) = 2
    /\ Len(result.value) = 1

\* C2: assigning settings that fail validate_settings leaves the control's
\* settings (the object and its content) as they were and raises a ValueError
\* whose message names the control; settings that pass replace the held
\* mapping as a whole.
C2_SetterAtomic ==
    [][result'.op = "settings.setter" =>
        LET i == result'.args[1]
            value == result'.args[2]
        IN IF ValidateSettings(instances[i].cls, heap[value])
           THEN /\ ~result'.raised
                /\ instances'[i].settings = value
                /\ heap'[value] = heap[value]
           ELSE /\ result'.raised
                /\ result'.exc.type = "ValueError"
                /\ Mentions(result'.exc, instances[i].name)
                /\ instances'[i].settings = instances[i].settings
                /\ heap'[instances'[i].settings] = heap[instances[i].settings]
    ]_vars

\* C2 witness: a firewall_rules list with an entry missing 'program' was
\* rejected by a control that holds non-empty settings
C2_Witness ==
    /\ result.op = "settings.setter"
    /\ result.raised
    /\ heap[result.args[2]] = SettingsOf(None, PyList(<<NoProgramRule>>), None)
    /\ heap[instances[result.args[1]].settings].items # <<>>

\* C3: generate_all_artifacts returns a mapping whose keys are exactly the
\* names of the registered generators that support the settings, each mapped
\* to that generator's generate(control_name, settings); with only a
\* 'registry' generator registered and settings {file_associations:
\* {'.scr': 'notepad.exe'}} the result has exactly the key 'registry', with
\* non-empty text holding '.scr' and 'notepad.exe'.
C3_GenerateAllKeys ==
    (result.op = "generate_all_artifacts" /\ ~result.raised) =>
        LET control_name == result.args[1]
            settings == result.args[2]
            artifacts == result.value
        IN /\ {<<artifacts[i][1], GeneratorOf(generators, artifacts[i][1])>> :
                    i \in 1..Len(artifacts)} = SupportingPairs(settings)
           /\ Len(artifacts) = Cardinality(SupportingPairs(settings))
           /\ \A i \in 1..Len(artifacts) :
                LET made == Generate(GeneratorOf(generators, artifacts[i][1]),
                                     control_name, settings, now)
                IN ~made.raised /\ artifacts[i][2] = made.text
           /\ ( /\ generators = << <<"registry", NewGenerator("RegistryGenerator")>> >>
                /\ settings = SettingsOf(PyDict(<< <<PyStr(Scr), PyStr(Notepad)>> >>),
                                         None, None) )
              => /\ Names(artifacts) = <<"registry">>
                 /\ artifacts[1][2] # <<>>
                 /\ Contains(artifacts[1][2], ".scr")
                 /\ Contains(artifacts[1][2], "notepad.exe")

\* C3 witness: the scenario of the registry-only registry happened
C3_Witness ==
    /\ result.op = "generate_all_artifacts"
    /\ ~result.raised
    /\ generators = << <<"registry", NewGenerator("RegistryGenerator")>> >>
    /\ result.args[2] = SettingsOf(PyDict(<< <<PyStr(Scr), PyStr(Notepad)>> >>),
                                   None, None)

\* C4: every create_control on a registered name returns a new instance that
\* starts with an empty settings mapping of its own, and a successful settings
\* assignment on one instance changes the settings of no other instance.
C4_FreshIndependentInstances ==
    [][ /\ (result'.op = "create_control" /\ ~result'.raised) =>
            LET new == result'.value IN
            /\ new = Len(instances) + 1
            /\ Len(instances') = new
            /\ \A j \in 1..Len(instances) : instances'[j] = instances[j]
            /\ instances'[new].cls = DictGet(controls, result'.args[1])
            /\ heap'[instances'[new].settings] = PyDict(<<>>)
            /\ instances'[new].settings # held'
            /\ \A j \in 1..Len(instances) :
                    instances'[j].settings # instances'[new].settings
        /\ (result'.op = "settings.setter" /\ ~result'.raised) =>
            \A j \in 1..Len(instances) :
                j # result'.args[1] =>
                    /\ instances'[j].settings = instances[j].settings
                    /\ heap'[instances'[j].settings] = heap[instances[j].settings]
    ]_vars

\* C4 witness: of two instances created under the same name one was assigned
\* settings and the other still holds its empty mapping
C4_Witness ==
    /\ result.op = "settings.setter"
    /\ ~result.raised
    /\ \E j \in 1..Len(instances) :
        /\ j # result.args[1]
        /\ instances[j].name = instances[result.args[1]].name
        /\ heap[instances[j].settings] = PyDict(<<>>)
        /\ heap[instances[result.args[1]].settings].items # <<>>

\* C5: create_control on a name that is not registered raises the not-found
\* ValueError naming it, returns no control, and leaves the control and
\* renderer mappings as they were; on a registered name it does not raise.
C5_CreateUnknownFails ==
    [][result'.op = "create_control" =>
        IF ~DictHas(controls, result'.args[1])
        THEN /\ result'.raised
             /\ result'.exc.type = "ValueError"
             /\ Mentions(result'.exc, result'.args[1])
             /\ result'.value = None
             /\ instances' = instances
             /\ controls' = controls
             /\ ui_renderers' = ui_renderers
        ELSE ~result'.raised
    ]_vars

\* C5 witness: a name was refused by a registry that holds other controls
C5_Witness ==
    /\ result.op = "create_control"
    /\ result.raised
    /\ controls # <<>>

\* C6: asking for a generator name that is not registered is an explicit
\* failure: get_generator raises or returns the absent value, and
\* create_download_package raises when a key of the artifacts mapping names no
\* registered generator.
C6_UnknownGeneratorFails ==
    /\ (result.op = "get_generator" /\ ~DictHas(generators, result.args[1])) =>
            (result.raised \/ result.value = None)
    /\ ( /\ result.op = "create_download_package"
         /\ \E i \in 1..Len(result.args[2]) :
                ~DictHas(generators, result.args[2][i][1]) )
       => result.raised

\* C7: the archive holds one file per entry of the artifacts mapping plus one
\* README.txt: as many files as artifact keys, plus one.
C7_OneFilePerArtifact ==
    (result.op = "create_download_package" /\ ~result.raised) =>
        Len(result.value.files) = Len(result.args[2]) + 1

\* C8: packaging an empty artifacts mapping succeeds and gives a non-empty
\* archive whose only file is README.txt.
C8_EmptyPackage ==
    (result.op = "create_download_package" /\ result.args[2] = <<>>) =>
        /\ ~result.raised
        /\ result.value.eocd
        /\ Len(result.value.files) = 1
        /\ result.value.files[1].name = "README.txt"
        /\ result.value.files[1].content # <<>>

\* C8 witness: an empty mapping was packaged while generators are registered
C8_Witness ==
    /\ result.op = "create_download_package"
    /\ result.args[2] = <<>>
    /\ generators # <<>>

\* the first generator, in registration order, that supports the settings
\* and whose generate raises on them
FailingGenerators(control_name, settings) ==
    {i \in 1..Len(generators) :
        /\ SupportsSettings(generators[i][2], settings)
        /\ Generate(generators[i][2], control_name, settings, now).raised}

FirstFailing(control_name, settings) ==
    CHOOSE i \in FailingGenerators(control_name, settings) :
        \A j \in FailingGenerators(control_name, settings) : i <= j

\* C9: when a compatible generator's generate raises in generate_all_artifacts,
\* the error the caller gets carries the failing generator's name and the
\* control name.
C9_ErrorNamesGenerator ==
    (result.op = "generate_all_artifacts" /\ result.raised) =>
        /\ Mentions(result.exc, result.args[1])
        /\ Mentions(result.exc,
                generators[FirstFailing(result.args[1], result.args[2])][1])

\* C10: a failing generate is handled the same way wherever the generator
\* stands among the compatible ones: the call raises exactly when some
\* compatible generator's generate raises, and a normal return has an entry
\* for every compatible generator.
C10_UniformFailure ==
    result.op = "generate_all_artifacts" =>
        /\ result.raised <=> FailingGenerators(result.args[1], result.args[2]) # {}
        /\ ~result.raised =>
                {result.value[i][1] : i \in 1..Len(result.value)}
                    = {p[1] : p \in SupportingPairs(result.args[2])}

\* C10 witness: the call raised for a generator that is not the first of the
\* compatible ones, the first having generated its artifact
C10_Witness ==
    /\ result.op = "generate_all_artifacts"
    /\ result.raised
    /\ \E i \in 1..Len(generators) :
        /\ SupportsSettings(generators[i][2], result.args[2])
        /\ i < FirstFailing(result.args[1], result.args[2])

\* C11: get_available_controls and get_all_generators return copies: adding,
\* removing or replacing entries in the returned mapping leaves the
\* registries' mappings as they were, so every later create_control,
\* get_ui_renderer, get_available_controls, get_generator, get_all_generators
\* and get_compatible_generators answers as it did before the write.
C11_ListingsAreCopies ==
    [][result'.op = "mutate" =>
        /\ controls' = controls
        /\ ui_renderers' = ui_renderers
        /\ generators' = generators
        /\ \A n \in ControlNameInputs \cup {"Injected Control"} :
                /\ DictHas(controls', n) <=> DictHas(controls, n)
                /\ DictHas(ui_renderers', n) <=> DictHas(ui_renderers, n)
        /\ \A n \in ArtifactKeys \cup {"injected"} :
                GeneratorOf(generators', n) = GeneratorOf(generators, n)
        /\ \A s \in SettingsInputs :
                CompatibleGenerators(generators', s) = CompatibleGenerators(generators, s)
    ]_vars

\* C11 witness: the caller holds a listing of the generators it has written
\* to, which differs from the registry's mapping
C11_Witness ==
    /\ result.op = "mutate"
    /\ result.args[1] = "get_all_generators"
    /\ result.value.items # generators
    /\ DictHas(result.value.items, "injected")

\* C12: registering a control factory whose metadata name is already
\* registered does not fail and the last registration wins: register_control
\* leaves the name mapped to the factory just registered, once, with the
\* other names as they were, and create_control(name) instantiates the
\* factory the name is mapped to.
C12_ControlLastWriteWins ==
    [][ /\ result'.op = "register_control" =>
            LET name == MetadataName(result'.args[1]) IN
            /\ ~result'.raised
            /\ DictGet(controls', name) = result'.args[1]
            /\ Cardinality({i \in 1..Len(controls') : controls'[i][1] = name}) = 1
            /\ \A i \in 1..Len(controls) :
                    controls[i][1] # name =>
                        /\ DictHas(controls', controls[i][1])
                        /\ DictGet(controls', controls[i][1]) = controls[i][2]
        /\ (result'.op = "create_control" /\ ~result'.raised) =>
            /\ instances'[result'.value].cls = DictGet(controls, result'.args[1])
            /\ controls' = controls
    ]_vars

\* C12 witness: an instance of the custom factory was created under the
\* name the WinX control was registered with first (its renderer is still
\* the one of that first registration)
C12_Witness ==
    /\ result.op = "create_control"
    /\ ~result.raised
    /\ result.args[1] = "WinX Menu Hardening"
    /\ instances[result.value].cls = CustomWinXFactory
    /\ DictHas(ui_renderers, "WinX Menu Hardening")
    /\ DictGet(ui_renderers, "WinX Menu Hardening") = "WinXMenuRenderer"

\* C13: register_generator does not fail on a name that is already
\* registered and overwrites: it leaves the name mapped to the instance just
\* registered, once, with the other names as they were, and get_generator
\* returns the very instance the name is mapped to, leaving it registered.
C13_GeneratorLastWriteWins ==
    [][ /\ result'.op = "register_generator" =>
            LET name == result'.args[1] IN
            /\ ~result'.raised
            /\ GeneratorOf(generators', name) = result'.args[2]
            /\ Cardinality({i \in 1..Len(generators') : generators'[i][1] = name}) = 1
            /\ \A i \in 1..Len(generators) :
                    generators[i][1] # name =>
                        GeneratorOf(generators', generators[i][1]) = generators[i][2]
        /\ (result'.op = "get_generator" /\ DictHas(generators, result'.args[1])) =>
            /\ ~result'.raised
            /\ result'.value = DictGet(generators, result'.args[1])
            /\ generators' = generators
    ]_vars

\* C13 witness: get_generator returned the second instance made, and the
\* first is no longer registered: the second was registered over it
C13_Witness ==
    /\ result.op = "get_generator"
    /\ result.value # None
    /\ result.value.id = 2
    /\ Len(generators) = 1

\* C14: get_ui_renderer never raises: it returns None for a name no
\* registration gave a renderer (a name never registered, or registered
\* without a renderer only) and otherwise a renderer instance made by the
\* call, of the class last registered for the name; a name has a renderer
\* exactly when a registration under it supplied one.
C14_RendererOrNone ==
    [][ /\ result'.op = "get_ui_renderer" =>
            LET name == result'.args[1] IN
            /\ ~result'.raised
            /\ ~DictHas(controls, name) => result'.value = None
            /\ IF DictHas(ui_renderers, name)
               THEN result'.value = NewRenderer(DictGet(ui_renderers, name))
               ELSE result'.value = None
            /\ ui_renderers' = ui_renderers
        /\ result'.op = "register_control" =>
            \A n \in ControlNameInputs :
                /\ DictHas(ui_renderers', n) <=>
                        \/ DictHas(ui_renderers, n)
                        \/ (n = MetadataName(result'.args[1])
                                /\ result'.args[2] # NoRenderer)
                /\ (n = MetadataName(result'.args[1]) /\ result'.args[2] # NoRenderer)
                        => DictGet(ui_renderers', n) = result'.args[2]
    ]_vars

\* C14 witness: None was returned for a control that is registered, without
\* a renderer
C14_Witness ==
    /\ result.op = "get_ui_renderer"
    /\ result.value = None
    /\ DictHas(controls, result.args[1])

\* C15: registration round-trips: every name of get_available_controls is
\* the metadata name of what its factory makes, and create_control(n)
\* returns a control whose metadata name is n.
C15_RegistrationRoundTrip ==
    /\ \A i \in 1..Len(controls) :
            NewControl(controls[i][2], 0).name = controls[i][1]
    /\ (result.op = "get_available_controls") =>
            \A i \in 1..Len(result.value.items) :
                NewControl(result.value.items[i][2], 0).name = result.value.items[i][1]
    /\ (result.op = "create_control" /\ ~result.raised) =>
            /\ DictHas(controls, result.args[1])
            /\ instances[result.value].name = result.args[1]

\* C15 witness: a control was created from a registry of two names
C15_Witness ==
    /\ result.op = "create_control"
    /\ ~result.raised
    /\ Len(controls) = 2
    /\ result.args[1] = controls[2][1]

\* a text with the time of its generation blanked out
MaskTimestamp(text, clock) ==
    [i \in 1..Len(text) |->
        [j \in 1..Len(text[i]) |->
            IF text[i][j] = Timestamp(clock) THEN "<timestamp>" ELSE text[i][j]]]

PositionOf(d, name) == CHOOSE i \in 1..Len(d) : d[i][1] = name

WellKnownSuffix(name) ==
    CASE name = "gpo" -> "_GPO.xml"
      [] name = "powershell" -> "_Script.ps1"
      [] name = "registry" -> "_Registry.reg"
      [] name = "batch" -> "_Deploy.bat"

\* the artifacts of a mapping that name a registered generator, in order
Packaged(artifacts) ==
    LET kept == {i \in 1..Len(artifacts) : DictHas(generators, artifacts[i][1])}
    IN [n \in 1..Cardinality(kept) |->
            artifacts[CHOOSE i \in kept : Cardinality({j \in kept : j <= i}) = n]]

\* C19: create_download_package names the file of each artifact whose key
\* names a registered generator by the control name and that key:
\* <control_name>_GPO.xml for 'gpo', _Script.ps1 for 'powershell',
\* _Registry.reg for 'registry', _Deploy.bat for 'batch', and
\* <control_name>.<get_file_extension()> of the registered generator for any
\* other name; the file holds the artifact's text.
C19_FileNames ==
    result.op = "create_download_package" =>
        LET control_name == result.args[1]
            written == Packaged(result.args[2])
            files == result.value.files
        IN /\ Len(files) = Len(written) + 1
           /\ \A i \in 1..Len(written) :
                /\ files[i].content = written[i][2]
                /\ files[i].name =
                    IF written[i][1] \in {"gpo", "powershell", "registry", "batch"}
                    THEN control_name \o WellKnownSuffix(written[i][1])
                    ELSE control_name \o "." \o
                         GetFileExtension(DictGet(generators, written[i][1]))

\* C19 witness: a package with the file of 'gpo' and the file of a name
\* without a suffix of its own, 'terraform'
C19_Witness ==
    /\ result.op = "create_download_package"
    /\ Len(result.value.files) = 3
    /\ \E i, j \in 1..2 :
        /\ result.value.files[i].name = result.args[1] \o "_GPO.xml"
        /\ result.value.files[j].name = result.args[1] \o ".tf"

\* what README.txt says of the files it lists
ManifestDescriptions ==
    {"Group Policy Object export", "PowerShell implementation script",
     "Registry file for manual import", "Batch script for deployment"}

\* the file names README.txt lists under 'Files Included:'
ManifestListed(readme, candidates) ==
    {f \in candidates :
        \E i \in 1..Len(readme) : \E d \in ManifestDescriptions :
            /\ Len(readme[i]) = 3
            /\ readme[i][1] = "- "
            /\ readme[i][2] \o readme[i][3] = f \o ": " \o d}

\* the file names a package of the control can hold
FileNameCandidates(control_name) ==
    {control_name \o x : x \in {"_GPO.xml", "_Script.ps1", "_Registry.reg",
                                  "_Deploy.bat", ".xml", ".ps1", ".reg",
                                  ".bat", ".tf"}}

\* C20: the files README.txt lists as included are the artifact files
\* written into the package, for every artifacts mapping.
C20_ManifestMatchesFiles ==
    result.op = "create_download_package" =>
        LET files == result.value.files
            readme == files[Len(files)].content
        IN ManifestListed(readme, FileNameCandidates(result.args[1]))
             = {files[i].name : i \in 1..(Len(files) - 1)}

\* the set of a mapping's top-level keys
KeySet(settings) == {settings.items[i][1] : i \in 1..Len(settings.items)}

\* C21: supports_settings of the GPO, PowerShell, registry and batch
\* generators is a pure predicate of the settings' key set: the answer is the
\* one every mapping with the same top-level keys gets, whatever was asked
\* before, and the call leaves the settings mapping and the registered
\* generators as they were.
C21_SupportsIsPureOnKeys ==
    [][result'.op = "supports_settings" =>
        LET generator == result'.args[1]
            settings == heap[result'.args[2]]
        IN /\ ~result'.raised
           /\ \A other \in SettingsInputs :
                KeySet(other) = KeySet(settings) =>
                    result'.value = PyBool(SupportsSettings(generator, other))
           /\ heap' = heap
           /\ generators' = generators
           /\ held' = held
    ]_vars

\* C21 witness: the GPO generator accepted a mapping whose file_associations
\* is not a mapping and whose only other key is winx_removal
C21_Witness ==
    /\ result.op = "supports_settings"
    /\ result.args[1].cls = "GPOXMLGenerator"
    /\ result.value = PyBool(TRUE)
    /\ KeySet(heap[held]) = {"file_associations", "winx_removal"}
    /\ ~IsInstance(DictGet(heap[held].items, "file_associations"), "dict")

\* C22: after the composition root has built them the registries are only
\* read: no get_available_controls, create_control, get_ui_renderer,
\* get_generator, get_all_generators, get_compatible_generators,
\* generate_all_artifacts or create_download_package call, returning or
\* raising, changes the control, renderer or generator mapping.
C22_RegistriesReadOnly ==
    [][ /\ controls' = controls
        /\ ui_renderers' = ui_renderers
        /\ generators' = generators
        /\ controls' = CreateControlRegistry.controls
        /\ ui_renderers' = CreateControlRegistry.ui_renderers
        /\ generators' = CreateGeneratorRegistry
    ]_vars

\* C22 witness: after a control was created, generate_all_artifacts raised
C22_Witness ==
    /\ result.op = "generate_all_artifacts"
    /\ result.raised
    /\ instances # <<>>
    /\ generators = CreateGeneratorRegistry

\* the outcome of a request handler is pending
Handled ==
    result.op \in {"_handle_standard_control", "_handle_custom_control"}

\* the positions of the calls that raised in a request's events
RaisedAt(events) == {i \in 1..Len(events) : events[i].raised}

\* the positions of the events of one operation
EventsOf(events, op) == {i \in 1..Len(events) : events[i].op = op}

\* C23: no error of the core ends a request.  A handler never raises; when a
\* call it made raised (create_control not finding the name, the settings
\* assignment rejecting the mapping, generation failing), the next and last
\* thing the request does is show one st.error carrying the error's message,
\* and the request shows no artifacts and offers no package download.
C23_ErrorsAreReported ==
    Handled =>
        /\ ~result.raised
        /\ \A i \in RaisedAt(result.value) :
              /\ Len(result.value) = i + 1
              /\ result.value[i + 1].kind = "ui"
              /\ result.value[i + 1].op = "st.error"
              /\ \E lead \in {"Configuration error: ", "An error occurred: "} :
                    result.value[i + 1].args = <<lead>> \o result.value[i].out.msg
              /\ EventsOf(result.value, "render_artifacts_display") = {}
              /\ EventsOf(result.value, "render_package_download") = {}
              /\ EventsOf(result.value, "create_download_package") = {}

\* a standard request whose generation failed after a successful assignment
C23_Witness ==
    /\ result.op = "_handle_standard_control"
    /\ ~result.raised
    /\ \E i \in RaisedAt(result.value) :
          /\ result.value[i].op = "generate_all_artifacts"
          /\ result.value[i].out.type = "KeyError"

\* C24: in the registry the composition root builds, each control the
\* system provides (file association, network traffic, WinX menu, hotkey,
\* custom) is registered with a renderer: its metadata name is listed by
\* get_available_controls, create_control on it does not raise, and
\* get_ui_renderer on it returns a renderer.
C24_EveryControlRegistered ==
    \A cls \in ControlClasses :
        /\ DictHas(controls, MetadataName(cls))
        /\ DictHas(ui_renderers, MetadataName(cls))
        /\ (result.op = "get_available_controls" /\ ~result.raised)
                => DictHas(result.value.items, MetadataName(cls))
        /\ (result.op = "create_control" /\ result.args = <<MetadataName(cls)>>)
                => ~result.raised
        /\ (result.op = "get_ui_renderer" /\ result.args = <<MetadataName(cls)>>)
                => /\ ~result.raised
                   /\ result.value = NewRenderer(RendererOf(cls))

\* the settings a renderer's answer carries: the answer itself for a
\* standard control, its "settings" entry for the custom control
SettingsIn(config_data) ==
    IF result.op = "_handle_custom_control" THEN config_data.settings ELSE config_data

\* the renderer returned no configuration: None, or for a standard control
\* an empty mapping (the custom configuration has three entries)
NoConfiguration(config_data) ==
    \/ config_data = None
    \/ result.op = "_handle_standard_control" /\ ~Truthy(config_data)

\* the control validates the mapping: the class create_control gave for a
\* standard control, CustomSecurityControl in the custom handler
ValidatedInRequest(events, settings) ==
    IF result.op = "_handle_custom_control"
    THEN CustomValidate(settings)
    ELSE \E c \in EventsOf(events, "create_control") :
            ~events[c].raised /\ ValidateSettings(events[c].out, settings)

\* C25: the order of the calls in a request.  generate_all_artifacts comes
\* right after a settings assignment that succeeded, on the settings of the
\* configuration the renderer returned just before, and those settings
\* validate; create_download_package comes after a generate_all_artifacts
\* that returned and takes the mapping it returned; a request whose renderer
\* is absent, returned no configuration, or whose assignment was rejected
\* makes neither call.
C25_RequestOrder ==
    (Handled /\ ~result.raised) =>
        LET events == result.value IN
        /\ \A g \in EventsOf(events, "generate_all_artifacts") :
              /\ g >= 3
              /\ events[g - 1].op = "settings.setter"
              /\ ~events[g - 1].raised
              /\ events[g - 1].args = <<events[g].args[2]>>
              /\ ValidatedInRequest(events, events[g].args[2])
              /\ \E r \in EventsOf(events, "render_configuration") :
                    /\ r < g - 1
                    /\ ~NoConfiguration(events[r].out)
                    /\ SettingsIn(events[r].out) = events[g].args[2]
        /\ \A p \in EventsOf(events, "create_download_package") :
              \E g \in EventsOf(events, "generate_all_artifacts") :
                    /\ g < p
                    /\ ~events[g].raised
                    /\ events[p].args = <<events[g].args[1], events[g].out>>
        /\ ( \/ \E u \in EventsOf(events, "get_ui_renderer") : events[u].out = None
             \/ \E r \in EventsOf(events, "render_configuration") :
                    NoConfiguration(events[r].out)
             \/ \E a \in EventsOf(events, "settings.setter") : events[a].raised )
            => /\ EventsOf(events, "generate_all_artifacts") = {}
               /\ EventsOf(events, "create_download_package") = {}

\* a custom request that assigned, generated and packaged what generation
\* returned
C25_Witness ==
    /\ result.op = "_handle_custom_control"
    /\ ~result.raised
    /\ \E p \in EventsOf(result.value, "create_download_package") :
          /\ result.value[p - 2].op = "generate_all_artifacts"
          /\ result.value[p - 3].op = "settings.setter"
          /\ result.value[p].args[2] = result.value[p - 2].out
          /\ Len(result.value[p].args[2]) >= 2

\* C26: the settings a control holds are the empty mapping it starts with
\* or a mapping its validate_settings accepts, whatever the caller does to
\* the mappings it assigned and to the mappings it read from the property.
C26_HeldSettingsValid ==
    \A i \in 1..Len(instances) :
        \/ heap[instances[i].settings] = PyDict(<<>>)
        \/ ValidateSettings(instances[i].cls, heap[instances[i].settings])

\* C27: the renderer stored under a name is the one of the latest
\* registration of the name that supplied one.  A registration with a
\* renderer stores it under the name; a registration without one replaces
\* the control factory and leaves every stored renderer, the name's own
\* included, as it was; get_ui_renderer returns the stored one; and every
\* name with a stored renderer is a registered control name.
C27_RendererOfLatestSupplied ==
    [][ /\ result'.op = "register_control" =>
            LET name == MetadataName(result'.args[1]) IN
            /\ DictGet(controls', name) = result'.args[1]
            /\ IF result'.args[2] # NoRenderer
               THEN /\ DictHas(ui_renderers', name)
                    /\ DictGet(ui_renderers', name) = result'.args[2]
                    /\ \A i \in 1..Len(ui_renderers) :
                            ui_renderers[i][1] # name =>
                                /\ DictHas(ui_renderers', ui_renderers[i][1])
                                /\ DictGet(ui_renderers', ui_renderers[i][1])
                                        = ui_renderers[i][2]
               ELSE ui_renderers' = ui_renderers
        /\ result'.op # "register_control" => ui_renderers' = ui_renderers
        /\ (result'.op = "get_ui_renderer" /\ DictHas(ui_renderers, result'.args[1])) =>
            result'.value = NewRenderer(DictGet(ui_renderers, result'.args[1]))
        /\ \A i \in 1..Len(ui_renderers') : DictHas(controls', ui_renderers'[i][1])
    ]_vars

\* get_ui_renderer returned the renderer of the WinX control for a name now
\* registered to the custom factory, which was registered without one
C27_Witness ==
    /\ result.op = "get_ui_renderer"
    /\ result.args = <<"WinX Menu Hardening">>
    /\ DictHas(controls, "WinX Menu Hardening")
    /\ DictGet(controls, "WinX Menu Hardening") = CustomWinXFactory
    /\ result.value = NewRenderer("WinXMenuRenderer")

\* the names in a mapping of names to generators or to artifacts
NameSet(d) == {d[i][1] : i \in 1..Len(d)}

\* the compatibility the application's four generators declare, by the keys
\* of the settings
CompatibleByKeys(names, settings) ==
    /\ "powershell" \in names
    /\ "batch" \in names
    /\ "gpo" \in names <=>
            \/ "file_associations" \in KeySet(settings)
            \/ "firewall_rules" \in KeySet(settings)
    /\ "registry" \in names <=> "file_associations" \in KeySet(settings)
    /\ names \subseteq {"gpo", "powershell", "registry", "batch"}

C29_DistinctFileNames ==
    result.op = "create_download_package" =>
        \A i, j \in 1..Len(result.value.files) :
            i # j => result.value.files[i].name # result.value.files[j].name

\* C30: the mapping get_default_configuration returns satisfies the
\* validate_settings of the control it was asked of, for every control
\* class, and assigning to a control a mapping equal to its default
\* configuration succeeds: the setter does not raise and the control holds it.
C30_DefaultsAreValid ==
    [][ /\ result'.op = "get_default_configuration" =>
            /\ ~result'.raised
            /\ ValidateSettings(instances[result'.args[1]].cls, heap'[result'.value])
        /\ ( /\ result'.op = "settings.setter"
             /\ heap[held] = GetDefaultConfiguration(instances[result'.args[1]].cls) )
            => /\ ~result'.raised
               /\ instances'[result'.args[1]].settings = held
               /\ heap'[held] = heap[held]
    ]_vars

\* the default of the firewall control, its thirty-four rules, was assigned
\* to a firewall control
C30_Witness ==
    /\ result.op = "settings.setter"
    /\ ~result.raised
    /\ instances[result.args[1]].cls = "NetworkTrafficControl"
    /\ heap[instances[result.args[1]].settings] = NetworkTrafficDefault
    /\ Len(DictGet(NetworkTrafficDefault.items, "firewall_rules").items) = 34

====
